---- MODULE Spec2Model ----
(***************************************************************************)
(* Model of the mini DAW core (maruiNia/Thiren): the tick timeline of      *)
(* events, the edit tools that mutate it through an undo stack and a       *)
(* reference context, and the bar-count changes that re-clamp it.          *)
(*                                                                         *)
(* Conventions of the translation                                          *)
(*   - Python None for an event id / a reference result is 0 (real event   *)
(*     ids are the naturals 1, 2, ... handed out by new_id).               *)
(*   - A Python str that the code indexes or parses (a "bar:step" time, a  *)
(*     pitch) is a sequence of one-character strings.                      *)
(*   - A float velocity is kept in hundredths (0.9 is 90).                 *)
(*   - An engine function f(state, ctx, ...) is an operator over a record  *)
(*     S = [events, stack, created, selected, next, ret, err] and returns  *)
(*     the record after the call; err # "" means the call raised.          *)
(***************************************************************************)
EXTENDS Integers, Sequences, FiniteSets, TLC

VARIABLES
    events,                  \* ProjectState.events (list of Event)
    bars,                    \* ProjectState.meta.bars
    history_events_stack,    \* ExecContext.history_events_stack
    last_created_event_ids,  \* ExecContext.last_created_event_ids
    last_selected_event_ids, \* ExecContext.last_selected_event_ids
    next_id,                 \* the next fresh id new_id() hands out
    nops,                    \* number of calls made so far
    last,                    \* record of the most recent call
    prev,                    \* record of the call before it
    probe,                   \* record of the last direct call of a pure function
    bpm,                     \* ProjectState.meta.bpm
    tracks,                  \* ProjectState.tracks (list of Track)
    _jobs,                   \* JobQueue._jobs (job id -> Job)
    threads,                 \* the worker threads started by JobQueue.create
    lock,                    \* JobQueue._lock: 0 when free, else the holder
    query,                   \* the status query in progress and its response
    state_samples            \* ProjectState.samples (ids of the registry)

vars == <<events, bars, history_events_stack, last_created_event_ids,
          last_selected_event_ids, next_id, nops, last, prev, probe, bpm, tracks,
          _jobs, threads, lock, query, state_samples>>

jobvars == <<_jobs, threads, lock, query, state_samples>>

----------------------------------------------------------------------------
(* Bounds of the exploration *)

MaxOps == 2
MaxBars == 2

(* Program constants *)

ticks_per_beat == 4
beats_per_bar == 4
\* the ranges of the create and update requests
BpmMin == 40
BpmMax == 240
BarsMin == 1
BarsMax == 64

Max(a, b) == IF a >= b THEN a ELSE b
Min(a, b) == IF a <= b THEN a ELSE b
Abs(x) == IF x < 0 THEN -x ELSE x

NONE == <<"None">>

ticks_per_bar == beats_per_bar * ticks_per_beat

total_ticks(b) == b * ticks_per_bar

TrackIds == {1, 2, 3, 4}

----------------------------------------------------------------------------
(* Strings as character sequences: int(), str.split(":"), str(int) *)

Digits == {"0", "1", "2", "3", "4", "5", "6", "7", "8", "9"}

DigitVal(c) ==
    CASE c = "0" -> 0 [] c = "1" -> 1 [] c = "2" -> 2 [] c = "3" -> 3
      [] c = "4" -> 4 [] c = "5" -> 5 [] c = "6" -> 6 [] c = "7" -> 7
      [] c = "8" -> 8 [] c = "9" -> 9

DigitChar(d) ==
    CASE d = 0 -> "0" [] d = 1 -> "1" [] d = 2 -> "2" [] d = 3 -> "3"
      [] d = 4 -> "4" [] d = 5 -> "5" [] d = 6 -> "6" [] d = 7 -> "7"
      [] d = 8 -> "8" [] d = 9 -> "9"

RECURSIVE DigitsToNat(_)
DigitsToNat(s) ==
    IF s = <<>> THEN 0
    ELSE 10 * DigitsToNat(SubSeq(s, 1, Len(s) - 1)) + DigitVal(s[Len(s)])

AllDigits(s) == s # <<>> /\ \A i \in 1..Len(s) : s[i] \in Digits

\* str.strip(): leading and trailing blanks removed
RECURSIVE Strip(_)
Strip(p) ==
    IF p = <<>> THEN p
    ELSE IF Head(p) = " " THEN Strip(Tail(p))
    ELSE IF p[Len(p)] = " " THEN Strip(SubSeq(p, 1, Len(p) - 1))
    ELSE p

\* int(x): surrounding blanks ignored, then an optional sign and at least one
\* decimal digit, else ValueError
ParseInt(x) ==
    LET s == Strip(x)
    IN IF AllDigits(s) THEN [ok |-> TRUE, val |-> DigitsToNat(s)]
       ELSE IF s # <<>> /\ s[1] \in {"-", "+"} /\ AllDigits(Tail(s))
            THEN [ok |-> TRUE,
                  val |-> IF s[1] = "-" THEN -DigitsToNat(Tail(s))
                          ELSE DigitsToNat(Tail(s))]
            ELSE [ok |-> FALSE, val |-> 0]

RECURSIVE NatToDigits(_)
NatToDigits(n) ==
    IF n < 10 THEN <<DigitChar(n)>>
    ELSE Append(NatToDigits(n \div 10), DigitChar(n % 10))

IntToStr(n) == IF n < 0 THEN <<"-">> \o NatToDigits(-n) ELSE NatToDigits(n)

ColonPositions(s) == {i \in 1..Len(s) : s[i] = ":"}

----------------------------------------------------------------------------
(* state.py: time parsing and clamping *)

IntT(n) == [kind |-> "int", n |-> n, s |-> << >>]
StrT(s) == [kind |-> "str", n |-> 0, s |-> s]

\* parse_time that forgets the 1-based step: tick = bar * ticks_per_bar + step
parse_time_one_based_step(t) ==
    IF t.kind = "int" THEN [ok |-> TRUE, val |-> t.n]
    ELSE LET s == t.s
             ps == ColonPositions(s)
         IN IF Cardinality(ps) # 1 THEN [ok |-> FALSE, val |-> 0]
            ELSE LET p == CHOOSE i \in ps : TRUE
                     bar_s == ParseInt(SubSeq(s, 1, p - 1))
                     step_s == ParseInt(SubSeq(s, p + 1, Len(s)))
                 IN IF ~bar_s.ok \/ ~step_s.ok THEN [ok |-> FALSE, val |-> 0]
                    ELSE [ok |-> TRUE,
                          val |-> (bar_s.val - 1) * ticks_per_bar + step_s.val]

\* parse_time that answers tick 0 for a string it cannot read
parse_time_default_tick(t) ==
    IF t.kind = "int" THEN [ok |-> TRUE, val |-> t.n]
    ELSE LET s == t.s
             ps == ColonPositions(s)
         IN IF Cardinality(ps) # 1 THEN [ok |-> TRUE, val |-> 0]
            ELSE LET p == CHOOSE i \in ps : TRUE
                     bar_s == ParseInt(SubSeq(s, 1, p - 1))
                     step_s == ParseInt(SubSeq(s, p + 1, Len(s)))
                 IN IF ~bar_s.ok \/ ~step_s.ok THEN [ok |-> TRUE, val |-> 0]
                    ELSE [ok |-> TRUE,
                          val |-> (bar_s.val - 1) * ticks_per_bar + (step_s.val - 1)]

parse_time(t) ==
    IF t.kind = "int" THEN [ok |-> TRUE, val |-> t.n]
    ELSE LET s == t.s
             ps == ColonPositions(s)
         IN IF Cardinality(ps) # 1 THEN [ok |-> FALSE, val |-> 0]
            ELSE LET p == CHOOSE i \in ps : TRUE
                     bar_s == ParseInt(SubSeq(s, 1, p - 1))
                     step_s == ParseInt(SubSeq(s, p + 1, Len(s)))
                 IN IF ~bar_s.ok \/ ~step_s.ok THEN [ok |-> FALSE, val |-> 0]
                    ELSE [ok |-> TRUE,
                          val |-> (bar_s.val - 1) * ticks_per_bar + (step_s.val - 1)]

clamp_tick(b, tick) == Max(0, Min(tick, total_ticks(b)))

----------------------------------------------------------------------------
(* state.py: Event, new_id; refs.py: ExecContext *)

Event(id, track_id, start_tick, duration_tick, type, sample_id, velocity, pitch) ==
    [id |-> id, track_id |-> track_id, start_tick |-> start_tick,
     duration_tick |-> duration_tick, type |-> type, sample_id |-> sample_id,
     velocity |-> velocity, pitch |-> pitch]

RetNone == [t |-> "none", s |-> "", n |-> 0]
RetStr(s) == [t |-> "str", s |-> s, n |-> 0]
RetId(i) == [t |-> "id", s |-> "", n |-> i]
RetInt(n) == [t |-> "int", s |-> "", n |-> n]

\* new_id("e"): a uuid-derived id nothing else holds; modelled as a counter
new_id(S) == S.next

last_created(S) == IF S.created = <<>> THEN 0 ELSE S.created[Len(S.created)]

last_selected(S) == IF S.selected = <<>> THEN 0 ELSE S.selected[Len(S.selected)]

\* a selection that is pushed even when it repeats the current one
set_selected_always_appends(sel, event_id) == Append(sel, event_id)

set_selected(sel, event_id) ==
    IF sel # <<>> /\ sel[Len(sel)] = event_id THEN sel ELSE Append(sel, event_id)

Raise(S, e) == [S EXCEPT !.err = e]

Return(S, r) == [S EXCEPT !.ret = r]

\* the first of the matching indexes (the loop stops at its first match), 0 when there is none
FirstIdx(matching) ==
    IF matching # {}
    THEN CHOOSE i \in matching : \A j \in matching : i <= j
    ELSE 0

RemoveAt(evs, i) == SubSeq(evs, 1, i - 1) \o SubSeq(evs, i + 1, Len(evs))

\* a Track; volume and pan are kept in hundredths like a velocity
Track(id, name, type, volume, sample_name, current_sample_id) ==
    [id |-> id, name |-> name, type |-> type, volume |-> volume, pan |-> 0,
     mute |-> FALSE, solo |-> FALSE, sample_name |-> sample_name,
     current_sample_id |-> current_sample_id]

\* create_default_project: the four tracks of a new project
DefaultTracks ==
    << Track(1, "Drums", "drum", 75, "Acoustic Kit 01", "drum_kick_001"),
       Track(2, "Bass", "melodic", 80, "Sub Bass 808", "bass_A1_001"),
       Track(3, "Pad", "melodic", 60, "Warm Pad A", "pad_A1_001"),
       Track(4, "Lead", "melodic", 70, "Pluck Synth C", "lead_A1_001") >>

\* ProjectMeta: the stored fields; ticks_per_bar and total_ticks are properties
ProjectMeta(time_signature, bpm_, bars_, ticks_per_beat_, swing) ==
    [time_signature |-> time_signature, bpm |-> bpm_, bars |-> bars_,
     ticks_per_beat |-> ticks_per_beat_, swing |-> swing]

ProjectMeta_ticks_per_bar(meta) == meta.time_signature[1] * meta.ticks_per_beat

ProjectMeta_total_ticks(meta) == meta.bars * ProjectMeta_ticks_per_bar(meta)

\* d.get(key, default) on a dict
Get(d, key, default) == IF key \in DOMAIN d THEN d[key] ELSE default

\* Track(**t): a key the dict lacks takes the dataclass default
TrackFromDict(t) ==
    [id |-> t.id, name |-> t.name, type |-> t.type,
     volume |-> Get(t, "volume", 80), pan |-> Get(t, "pan", 0),
     mute |-> Get(t, "mute", FALSE), solo |-> Get(t, "solo", FALSE),
     sample_name |-> Get(t, "sample_name", ""),
     current_sample_id |-> Get(t, "current_sample_id", "")]

\* Event(**e): velocity and pitch have defaults
EventFromDict(e) ==
    Event(e.id, e.track_id, e.start_tick, e.duration_tick, e.type, e.sample_id,
          Get(e, "velocity", 80), Get(e, "pitch", NONE))

\* ProjectState.to_dict: the meta dict carries the two derived values too
to_dict(s) ==
    [id |-> s.id, name |-> s.name,
     meta |-> [time_signature |-> s.meta.time_signature, bpm |-> s.meta.bpm,
               bars |-> s.meta.bars, ticks_per_beat |-> s.meta.ticks_per_beat,
               ticks_per_bar |-> ProjectMeta_ticks_per_bar(s.meta),
               total_ticks |-> ProjectMeta_total_ticks(s.meta),
               swing |-> s.meta.swing],
     tracks |-> s.tracks, events |-> s.events, samples |-> s.samples]

\* a from_dict that trusts the stored totals: bars is what total_ticks and
\* ticks_per_bar of the record give
from_dict_trusts_stored(d) ==
    [id |-> d.id, name |-> d.name,
     meta |-> ProjectMeta(d.meta.time_signature, d.meta.bpm,
                          IF "total_ticks" \in DOMAIN d.meta /\ "ticks_per_bar" \in DOMAIN d.meta
                          THEN d.meta.total_ticks \div d.meta.ticks_per_bar
                          ELSE d.meta.bars,
                          Get(d.meta, "ticks_per_beat", 4), Get(d.meta, "swing", 0)),
     tracks |-> [i \in DOMAIN d.tracks |-> TrackFromDict(d.tracks[i])],
     events |-> [i \in DOMAIN d.events |-> EventFromDict(d.events[i])],
     samples |-> d.samples]

\* ProjectState.from_dict
from_dict(d) ==
    [id |-> d.id, name |-> d.name,
     meta |-> ProjectMeta(d.meta.time_signature, d.meta.bpm, d.meta.bars,
                          Get(d.meta, "ticks_per_beat", 4), Get(d.meta, "swing", 0)),
     tracks |-> [i \in DOMAIN d.tracks |-> TrackFromDict(d.tracks[i])],
     events |-> [i \in DOMAIN Get(d, "events", << >>) |-> EventFromDict(d.events[i])],
     samples |-> Get(d, "samples", << >>)]

\* next((t for t in state.tracks if t.id == track_id), None): the position of
\* the first track with that id, 0 when there is none
find_track(trs, track_id) == FirstIdx({k \in DOMAIN trs : trs[k].id = track_id})

----------------------------------------------------------------------------
(* edit_tools.py *)

_push_undo_snapshot(S) == [S EXCEPT !.stack = Append(@, S.events)]

\* undo that restores the first snapshot it pops and only drops the others
undo_restores_top(S, steps) ==
    IF steps <= 0 \/ S.stack = << >> THEN S
    ELSE [S EXCEPT !.events = S.stack[Len(S.stack)],
                   !.stack = SubSeq(S.stack, 1, Len(S.stack) - Min(steps, Len(S.stack)))]

\* undo that also forgets the creation of the events it takes back
undo_forgets_created(S, steps) ==
    IF steps <= 0 \/ S.stack = << >> THEN S
    ELSE LET k == Min(steps, Len(S.stack))
             evs == S.stack[Len(S.stack) - k + 1]
             Kept(id) == \E i \in 1..Len(evs) : evs[i].id = id
         IN [S EXCEPT !.events = evs,
                      !.stack = SubSeq(S.stack, 1, Len(S.stack) - k),
                      !.created = SelectSeq(@, Kept)]

\* undo that also resets the selection
undo_clears_selected(S, steps) ==
    IF steps <= 0 \/ S.stack = << >> THEN S
    ELSE LET k == Min(steps, Len(S.stack))
         IN [S EXCEPT !.events = S.stack[Len(S.stack) - k + 1],
                      !.stack = SubSeq(S.stack, 1, Len(S.stack) - k),
                      !.selected = << >>]

RECURSIVE undo(_, _)
undo(S, steps) ==
    IF steps <= 0 \/ S.stack = <<>> THEN S
    ELSE undo([S EXCEPT !.events = S.stack[Len(S.stack)],
                        !.stack = SubSeq(S.stack, 1, Len(S.stack) - 1)],
              steps - 1)

\* place_drum that stores the duration as given, without the floor of 1
place_drum_keeps_duration(S, b, track_id, start, duration_tick, sample_id, velocity) ==
    LET S1 == _push_undo_snapshot(S)
        pt == parse_time(start)
    IN IF ~pt.ok THEN Raise(S1, "ValueError")
       ELSE LET eid == new_id(S1)
                ev == Event(eid, track_id, clamp_tick(b, pt.val), duration_tick,
                            "drum", sample_id, velocity, NONE)
            IN [S1 EXCEPT !.events = Append(@, ev), !.created = Append(@, eid),
                          !.next = @ + 1, !.ret = RetId(eid)]

place_drum(S, b, track_id, start, duration_tick, sample_id, velocity) ==
    LET S1 == _push_undo_snapshot(S)
        pt == parse_time(start)
    IN IF ~pt.ok THEN Raise(S1, "ValueError")
       ELSE LET eid == new_id(S1)
                ev == Event(eid, track_id, clamp_tick(b, pt.val), Max(1, duration_tick),
                            "drum", sample_id, velocity, NONE)
            IN [S1 EXCEPT !.events = Append(@, ev), !.created = Append(@, eid),
                          !.next = @ + 1, !.ret = RetId(eid)]

\* a placement that takes the fixed sample whenever none is given
place_note_fixed_default(S, b, track_id, start, duration_tick, sample_id, pitch, velocity) ==
    LET S1 == _push_undo_snapshot(S)
        pt == parse_time(start)
    IN IF ~pt.ok THEN Raise(S1, "ValueError")
       ELSE LET sid == IF sample_id # "None" THEN sample_id ELSE "bass_A1_001"
                eid == new_id(S1)
                ev == Event(eid, track_id, clamp_tick(b, pt.val), Max(1, duration_tick),
                            "melodic", sid, velocity, pitch)
            IN [S1 EXCEPT !.events = Append(@, ev), !.created = Append(@, eid),
                          !.next = @ + 1, !.ret = RetId(eid)]

\* sample_id = "None" stands for the argument left at None
place_note(S, b, track_id, start, duration_tick, sample_id, pitch, velocity) ==
    LET S1 == _push_undo_snapshot(S)
        pt == parse_time(start)
    IN IF ~pt.ok THEN Raise(S1, "ValueError")
       ELSE LET tr == find_track(tracks, track_id)
                sid == IF sample_id # "None" THEN sample_id
                       ELSE IF tr # 0 /\ tracks[tr].current_sample_id # ""
                            THEN tracks[tr].current_sample_id
                            ELSE "bass_A1_001"
                eid == new_id(S1)
                ev == Event(eid, track_id, clamp_tick(b, pt.val), Max(1, duration_tick),
                            "melodic", sid, velocity, pitch)
            IN [S1 EXCEPT !.events = Append(@, ev), !.created = Append(@, eid),
                          !.next = @ + 1, !.ret = RetId(eid)]

\* resolution that falls back to the reference when the explicit id matches nothing
resolve_target_fallback(S, event_id, event_ref) ==
    IF event_id # 0 /\ \E i \in 1..Len(S.events) : S.events[i].id = event_id
    THEN event_id
    ELSE IF event_ref = "last_created" THEN last_created(S)
    ELSE IF event_ref = "last_selected" THEN last_selected(S)
    ELSE 0

\* target_id = event_id, else the slot event_ref names, else None (0)
resolve_target(S, event_id, event_ref) ==
    IF event_id # 0 THEN event_id
    ELSE IF event_ref = "last_created" THEN last_created(S)
    ELSE IF event_ref = "last_selected" THEN last_selected(S)
    ELSE 0

\* move_event that stores start + delta without clamping it
move_event_unclamped(S, b, event_id, event_ref, delta_tick) ==
    LET S1 == _push_undo_snapshot(S)
        target_id == resolve_target(S1, event_id, event_ref)
        HasId(e) == e.id = target_id
        i == FirstIdx({k \in DOMAIN S1.events : HasId(S1.events[k])})
    IN IF target_id = 0 \/ i = 0 THEN S1
       ELSE [S1 EXCEPT !.events[i].start_tick = @ + delta_tick]

move_event(S, b, event_id, event_ref, delta_tick) ==
    LET S1 == _push_undo_snapshot(S)
        target_id == resolve_target(S1, event_id, event_ref)
        HasId(e) == e.id = target_id
        i == FirstIdx({k \in DOMAIN S1.events : HasId(S1.events[k])})
    IN IF target_id = 0 \/ i = 0 THEN S1
       ELSE [S1 EXCEPT !.events[i].start_tick = clamp_tick(b, @ + delta_tick)]

\* delete_event whose filter is inverted: it keeps the target and drops the rest
delete_event_inverted(S, event_id, event_ref) ==
    LET S1 == _push_undo_snapshot(S)
        target_id == resolve_target(S1, event_id, event_ref)
        Keep(e) == e.id = target_id
    IN IF target_id = 0 THEN S1
       ELSE [S1 EXCEPT !.events = SelectSeq(@, Keep)]

delete_event(S, event_id, event_ref) ==
    LET S1 == _push_undo_snapshot(S)
        target_id == resolve_target(S1, event_id, event_ref)
        Keep(e) == e.id # target_id
    IN IF target_id = 0 THEN S1
       ELSE [S1 EXCEPT !.events = SelectSeq(@, Keep)]

set_event_start(S, b, event_id, start_tick) ==
    LET S1 == _push_undo_snapshot(S)
        HasId(e) == e.id = event_id
        i == FirstIdx({k \in DOMAIN S1.events : HasId(S1.events[k])})
    IN IF i = 0 THEN S1
       ELSE [S1 EXCEPT !.events[i].start_tick = clamp_tick(b, start_tick)]

\* set_pitch without the check of the event's type
set_pitch_any_type(S, event_id, event_ref, pitch) ==
    LET S1 == _push_undo_snapshot(S)
        target_id == resolve_target(S1, event_id, event_ref)
        HasId(e) == e.id = target_id
        i == FirstIdx({k \in DOMAIN S1.events : HasId(S1.events[k])})
    IN IF target_id = 0 \/ i = 0 THEN S1
       ELSE [S1 EXCEPT !.events[i].pitch = pitch]

set_pitch(S, event_id, event_ref, pitch) ==
    LET S1 == _push_undo_snapshot(S)
        target_id == resolve_target(S1, event_id, event_ref)
        HasId(e) == e.id = target_id
        i == FirstIdx({k \in DOMAIN S1.events : HasId(S1.events[k])})
    IN IF target_id = 0 \/ i = 0 THEN S1
       ELSE IF S1.events[i].type # "melodic" THEN S1
       ELSE [S1 EXCEPT !.events[i].pitch = pitch]

----------------------------------------------------------------------------
(* edit_tools.py: pitch arithmetic *)

_NOTE_ORDER ==
    << <<"C">>, <<"C", "#">>, <<"D">>, <<"D", "#">>, <<"E">>, <<"F">>,
       <<"F", "#">>, <<"G">>, <<"G", "#">>, <<"A">>, <<"A", "#">>, <<"B">> >>

Upper(c) ==
    CASE c = "a" -> "A" [] c = "b" -> "B" [] c = "c" -> "C" [] c = "d" -> "D"
      [] c = "e" -> "E" [] c = "f" -> "F" [] c = "g" -> "G" [] OTHER -> c

NoteIndex(note) ==
    IF \E i \in 1..12 : _NOTE_ORDER[i] = note
    THEN (CHOOSE i \in 1..12 : _NOTE_ORDER[i] = note) - 1
    ELSE -1

\* _parse_pitch that reads only the first character of the octave
_parse_pitch_one_digit_octave(pitch) ==
    LET q == Strip(pitch)
        p == [i \in 1..Len(q) |-> Upper(q[i])]
        bad == [ok |-> FALSE, idx |-> 0, oct |-> 0]
    IN IF Len(p) < 2 THEN bad
       ELSE LET sharp == p[2] = "#"
                note == IF sharp THEN SubSeq(p, 1, 2) ELSE SubSeq(p, 1, 1)
                rest == IF sharp THEN SubSeq(p, 3, Len(p)) ELSE SubSeq(p, 2, Len(p))
                octave == ParseInt(IF rest = << >> THEN rest ELSE <<rest[1]>>)
            IN IF NoteIndex(note) < 0 THEN bad
               ELSE IF ~octave.ok THEN bad
               ELSE [ok |-> TRUE, idx |-> NoteIndex(note), oct |-> octave.val]

\* [ok, idx, oct]; ok = FALSE is the None result
_parse_pitch(pitch) ==
    LET q == Strip(pitch)
        p == [i \in 1..Len(q) |-> Upper(q[i])]
        bad == [ok |-> FALSE, idx |-> 0, oct |-> 0]
    IN IF Len(p) < 2 THEN bad
       ELSE LET sharp == p[2] = "#"
                note == IF sharp THEN SubSeq(p, 1, 2) ELSE SubSeq(p, 1, 1)
                rest == IF sharp THEN SubSeq(p, 3, Len(p)) ELSE SubSeq(p, 2, Len(p))
                octave == ParseInt(rest)
            IN IF NoteIndex(note) < 0 THEN bad
               ELSE IF ~octave.ok THEN bad
               ELSE [ok |-> TRUE, idx |-> NoteIndex(note), oct |-> octave.val]

_pitch_to_str(note_idx, octave) == _NOTE_ORDER[note_idx + 1] \o IntToStr(octave)

\* transpose_pitch without the floor at 0: a negative total is rendered as it is
transpose_pitch_no_floor(pitch, semitone) ==
    LET parsed == _parse_pitch(pitch)
    IN IF ~parsed.ok THEN NONE
       ELSE LET total == parsed.oct * 12 + parsed.idx + semitone
            IN _pitch_to_str(total % 12, total \div 12)

\* the new pitch string, or NONE
transpose_pitch(pitch, semitone) ==
    LET parsed == _parse_pitch(pitch)
    IN IF ~parsed.ok THEN NONE
       ELSE LET t0 == parsed.oct * 12 + parsed.idx + semitone
                total == IF t0 < 0 THEN 0 ELSE t0
            IN _pitch_to_str(total % 12, total \div 12)

transpose_event(S, event_id, event_ref, semitone) ==
    LET S1 == _push_undo_snapshot(S)
        target_id == resolve_target(S1, event_id, event_ref)
        HasId(e) == e.id = target_id
        i == FirstIdx({k \in DOMAIN S1.events : HasId(S1.events[k])})
    IN IF target_id = 0 \/ i = 0 THEN S1
       ELSE IF S1.events[i].type # "melodic" \/ S1.events[i].pitch \in {NONE, <<>>} THEN S1
       ELSE LET new_p == transpose_pitch(S1.events[i].pitch, semitone)
            IN IF new_p \in {NONE, <<>>} THEN S1
               ELSE [S1 EXCEPT !.events[i].pitch = new_p]

----------------------------------------------------------------------------
(* edit_tools.py: drum step toggle and pattern templates *)

\* the last of the matching indexes, 0 when there is none
LastIdx(matching) ==
    IF matching # {}
    THEN CHOOSE i \in matching : \A j \in matching : i >= j
    ELSE 0

\* toggle whose search loop has no break: the last match is the one removed
toggle_drum_step_last_match(S, b, track_id, start_tick, sample_id, duration_tick, velocity, tolerance_tick) ==
    LET S1 == _push_undo_snapshot(S)
        st == clamp_tick(b, start_tick)
        Hit(e) == /\ e.type = "drum"
                  /\ e.track_id = track_id
                  /\ e.sample_id = sample_id
                  /\ Abs(e.start_tick - st) <= tolerance_tick
        idx == LastIdx({k \in DOMAIN S1.events : Hit(S1.events[k])})
    IN IF idx # 0
       THEN [S1 EXCEPT !.events = RemoveAt(@, idx), !.ret = RetStr("deleted")]
       ELSE LET eid == new_id(S1)
                ev == Event(eid, track_id, st, Max(1, duration_tick), "drum",
                            sample_id, velocity, NONE)
            IN [S1 EXCEPT !.events = Append(@, ev), !.created = Append(@, eid),
                          !.next = @ + 1, !.ret = RetStr("created")]

\* toggle that searches for the start tick as given and clamps only the new event
toggle_drum_step_unclamped_search(S, b, track_id, start_tick, sample_id, duration_tick, velocity, tolerance_tick) ==
    LET S1 == _push_undo_snapshot(S)
        st == clamp_tick(b, start_tick)
        Hit(e) == /\ e.type = "drum"
                  /\ e.track_id = track_id
                  /\ e.sample_id = sample_id
                  /\ Abs(e.start_tick - start_tick) <= tolerance_tick
        idx == FirstIdx({k \in DOMAIN S1.events : Hit(S1.events[k])})
    IN IF idx # 0
       THEN [S1 EXCEPT !.events = RemoveAt(@, idx), !.ret = RetStr("deleted")]
       ELSE LET eid == new_id(S1)
                ev == Event(eid, track_id, st, Max(1, duration_tick), "drum",
                            sample_id, velocity, NONE)
            IN [S1 EXCEPT !.events = Append(@, ev), !.created = Append(@, eid),
                          !.next = @ + 1, !.ret = RetStr("created")]

toggle_drum_step(S, b, track_id, start_tick, sample_id, duration_tick, velocity, tolerance_tick) ==
    LET S1 == _push_undo_snapshot(S)
        st == clamp_tick(b, start_tick)
        Hit(e) == /\ e.type = "drum"
                  /\ e.track_id = track_id
                  /\ e.sample_id = sample_id
                  /\ Abs(e.start_tick - st) <= tolerance_tick
        idx == FirstIdx({k \in DOMAIN S1.events : Hit(S1.events[k])})
    IN IF idx # 0
       THEN [S1 EXCEPT !.events = RemoveAt(@, idx), !.ret = RetStr("deleted")]
       ELSE LET eid == new_id(S1)
                ev == Event(eid, track_id, st, Max(1, duration_tick), "drum",
                            sample_id, velocity, NONE)
            IN [S1 EXCEPT !.events = Append(@, ev), !.created = Append(@, eid),
                          !.next = @ + 1, !.ret = RetStr("created")]

tick_at(bar_idx, step_1based) == bar_idx * ticks_per_bar + (step_1based - 1)

Hit1(step, sample_id) == [step |-> step, sample_id |-> sample_id]

\* the toggles one bar of a pattern makes, in call order
PatternSteps(pattern) ==
    CASE pattern = "four_on_the_floor" ->
           << Hit1(1, "drum_kick_001"), Hit1(5, "drum_kick_001"),
              Hit1(9, "drum_kick_001"), Hit1(13, "drum_kick_001") >>
      [] pattern = "backbeat" ->
           << Hit1(1, "drum_kick_001"), Hit1(9, "drum_kick_001"),
              Hit1(5, "drum_snare_001"), Hit1(13, "drum_snare_001") >>
      [] pattern = "hihat_8th" ->
           << Hit1(1, "drum_hat_001"), Hit1(3, "drum_hat_001"),
              Hit1(5, "drum_hat_001"), Hit1(7, "drum_hat_001"),
              Hit1(9, "drum_hat_001"), Hit1(11, "drum_hat_001"),
              Hit1(13, "drum_hat_001"), Hit1(15, "drum_hat_001") >>
      [] OTHER -> << >>

\* the step of a pattern bar: what apply_drum_pattern does at one offset
pattern_step(S, b, track_id, tick, sample_id) ==
    toggle_drum_step(S, b, track_id, tick, sample_id, 1, 90, 0)

\* the inner loop over the steps of one bar; a step that raised ends the call
RECURSIVE PatternBar(_, _, _, _, _)
PatternBar(S, b, track_id, bar_idx, steps) ==
    IF steps = << >> THEN S
    ELSE LET S2 == pattern_step(S, b, track_id, tick_at(bar_idx, Head(steps).step),
                                Head(steps).sample_id)
         IN IF S2.err # "" THEN S2
            ELSE PatternBar(S2, b, track_id, bar_idx, Tail(steps))

\* the outer loop: for b in range(start_bar_idx, min(start_bar_idx + bars, total_bars))
RECURSIVE PatternBars(_, _, _, _, _, _)
PatternBars(S, b, track_id, bar_idx, bar_end, steps) ==
    IF bar_idx >= bar_end THEN S
    ELSE LET S2 == PatternBar(S, b, track_id, bar_idx, steps)
         IN IF S2.err # "" THEN S2
            ELSE PatternBars(S2, b, track_id, bar_idx + 1, bar_end, steps)

apply_drum_pattern(S, b, bars_arg, pattern, base_bar_arg) ==
    LET S1 == _push_undo_snapshot(S)
        total_bars == b
        nbars == Max(1, Min(bars_arg, total_bars))
        base_bar == Max(1, Min(base_bar_arg, total_bars))
        start_bar_idx == base_bar - 1
        track_id == 1
    IN Return(PatternBars(S1, b, track_id, start_bar_idx,
                          Min(start_bar_idx + nbars, total_bars), PatternSteps(pattern)),
              RetNone)

----------------------------------------------------------------------------
(* drum_tools.py *)

DrumNames == {"kick", "snare", "hihat"}

DRUM_SAMPLE_ID(drum) ==
    CASE drum = "kick" -> "drum_kick_001"
      [] drum = "snare" -> "drum_snare_001"
      [] drum = "hihat" -> "drum_hihat_001"

toggle_drum(S, b, track_id, start_tick, drum, duration_tick, velocity) ==
    LET S1 == _push_undo_snapshot(S)
        st == clamp_tick(b, start_tick)
    IN IF drum \notin DrumNames THEN Raise(S1, "KeyError")
       ELSE
       LET sample_id == DRUM_SAMPLE_ID(drum)
           Hit(e) == /\ e.track_id = track_id
                     /\ e.type = "drum"
                     /\ e.start_tick = st
                     /\ e.sample_id = sample_id
           idx == FirstIdx({k \in DOMAIN S1.events : Hit(S1.events[k])})
       IN IF idx # 0
          THEN [S1 EXCEPT !.events = RemoveAt(@, idx), !.ret = RetStr("deleted")]
          ELSE LET eid == new_id(S1)
                   ev == Event(eid, track_id, st, Max(1, duration_tick), "drum",
                               sample_id, velocity, NONE)
               IN [S1 EXCEPT !.events = Append(@, ev), !.created = Append(@, eid),
                             !.next = @ + 1, !.ret = RetId(eid)]

beat_starts == <<0, ticks_per_beat, 2 * ticks_per_beat, 3 * ticks_per_beat>>

\* the start ticks apply_pattern_four visits, in order
RECURSIVE BeatTicks(_, _)
BeatTicks(bar, nbars) ==
    IF bar >= nbars THEN << >>
    ELSE [k \in 1..4 |-> bar * ticks_per_bar + beat_starts[k]] \o BeatTicks(bar + 1, nbars)

\* S carries the count of created events in ret.n
RECURSIVE FourCreate(_, _, _, _, _)
FourCreate(S, track_id, sample_id, velocity, ticks) ==
    IF ticks = << >> THEN S
    ELSE LET start_tick == Head(ticks)
             exists == \E i \in 1..Len(S.events) :
                          /\ S.events[i].track_id = track_id
                          /\ S.events[i].type = "drum"
                          /\ S.events[i].start_tick = start_tick
                          /\ S.events[i].sample_id = sample_id
             eid == new_id(S)
             ev == Event(eid, track_id, start_tick, 1, "drum", sample_id, velocity, NONE)
             S2 == IF exists THEN S
                   ELSE [S EXCEPT !.events = Append(@, ev), !.created = Append(@, eid),
                                  !.next = @ + 1, !.ret = RetInt(@.n + 1)]
         IN FourCreate(S2, track_id, sample_id, velocity, Tail(ticks))

\* a pattern that clears the beats first whether or not overwrite is set
apply_pattern_four_always_overwrites(S, b, track_id, drum, velocity, overwrite) ==
    LET S1 == _push_undo_snapshot(S)
    IN IF drum \notin DrumNames THEN Raise(S1, "KeyError")
       ELSE
       LET sample_id == DRUM_SAMPLE_ID(drum)
           ticks == BeatTicks(0, b)
           OnBeat(e) == \E k \in 1..Len(ticks) : e.start_tick = ticks[k]
           Keep(e) == ~(e.track_id = track_id /\ e.type = "drum"
                        /\ e.sample_id = sample_id /\ OnBeat(e))
           S2 == [S1 EXCEPT !.events = SelectSeq(@, Keep)]
       IN FourCreate(Return(S2, RetInt(0)), track_id, sample_id, velocity, ticks)

apply_pattern_four(S, b, track_id, drum, velocity, overwrite) ==
    LET S1 == _push_undo_snapshot(S)
    IN IF drum \notin DrumNames THEN Raise(S1, "KeyError")
       ELSE
       LET sample_id == DRUM_SAMPLE_ID(drum)
           ticks == BeatTicks(0, b)
           OnBeat(e) == \E k \in 1..Len(ticks) : e.start_tick = ticks[k]
           Keep(e) == ~(e.track_id = track_id /\ e.type = "drum"
                        /\ e.sample_id = sample_id /\ OnBeat(e))
           S2 == IF overwrite THEN [S1 EXCEPT !.events = SelectSeq(@, Keep)] ELSE S1
       IN FourCreate(Return(S2, RetInt(0)), track_id, sample_id, velocity, ticks)

----------------------------------------------------------------------------
(* bar-count changes: command_executor.py, state.py, routes_project.py *)

\* recompute_meta that deletes the events beyond the new total
recompute_meta_deletes(evs, b) ==
    LET Within(e) == e.start_tick <= total_ticks(b)
    IN SelectSeq(evs, Within)

recompute_meta(evs, b) ==
    [i \in 1..Len(evs) |->
        IF evs[i].start_tick > total_ticks(b)
        THEN [evs[i] EXCEPT !.start_tick = total_ticks(b)]
        ELSE evs[i]]

\* the clamp loop of update_meta without its duration line
update_meta_events_start_only(evs, b) ==
    [i \in 1..Len(evs) |-> [evs[i] EXCEPT !.start_tick = clamp_tick(b, @)]]

update_meta_events(evs, b) ==
    [i \in 1..Len(evs) |->
        [evs[i] EXCEPT !.start_tick = clamp_tick(b, @),
                       !.duration_tick = Max(1, Min(@, ticks_per_bar))]]

----------------------------------------------------------------------------
(* mixer.py.  A path is the directory it lies under and the rest; a registry  *)
(* path "/files/<rest>" is [prefix |-> "/files/", rest |-> <rest>].  The      *)
(* files are [exists, readable]: the paths that exist and, among them, the    *)
(* ones soundfile can read.  The master buffer is kept as the list of the     *)
(* contributions added to it (position and length in ticks, gain in           *)
(* ten-thousandths), as it is before the limiter scales it.                   *)

PathOf(prefix, rest) == [prefix |-> prefix, rest |-> rest]

NoPath == PathOf("None", "")

\* RenderRegion(bar_start, bars), or no region
Region(bar_start, bars_) == [given |-> TRUE, bar_start |-> bar_start, bars |-> bars_]

NoRegion == [given |-> FALSE, bar_start |-> 0, bars |-> 0]

\* preset_dir is TRUE when a preset directory is passed
_find_sample_path(s, sample_id, files, preset_dir) ==
    LET cand == PathOf("preset/", sample_id)
        preset == IF preset_dir /\ cand \in files.exists THEN cand ELSE NoPath
    IN IF sample_id \in DOMAIN s.samples /\ "path" \in DOMAIN s.samples[sample_id]
       THEN LET q == s.samples[sample_id].path
                local == PathOf("storage/", q.rest)
            IN IF q.prefix = "/files/" /\ local \in files.exists THEN local
               ELSE IF q \in files.exists THEN q
               ELSE preset
       ELSE preset

\* a range whose end is not cut at the end of the project
render_range_uncut(meta, region) ==
    IF ~region.given
    THEN [start_tick |-> 0, end_tick |-> ProjectMeta_total_ticks(meta)]
    ELSE LET tbar == ProjectMeta_ticks_per_bar(meta)
             bar0 == Max(1, region.bar_start) - 1
             nbars == Max(1, region.bars)
         IN [start_tick |-> bar0 * tbar, end_tick |-> bar0 * tbar + nbars * tbar]

\* the tick range [start_tick, end_tick) of a render
render_range(meta, region) ==
    IF ~region.given
    THEN [start_tick |-> 0, end_tick |-> ProjectMeta_total_ticks(meta)]
    ELSE LET tbar == ProjectMeta_ticks_per_bar(meta)
             bar0 == Max(1, region.bar_start) - 1
             nbars == Max(1, region.bars)
         IN [start_tick |-> bar0 * tbar,
             end_tick |-> Min(ProjectMeta_total_ticks(meta), bar0 * tbar + nbars * tbar)]

\* a rule in which a muted track stays silent even when it is soloed
track_active_mute_wins(trs, track_id) ==
    LET solo_on == \E k \in DOMAIN trs : trs[k].solo
        t == find_track(trs, track_id)
    IN IF t = 0 THEN FALSE
       ELSE IF trs[t].mute THEN FALSE
       ELSE IF solo_on THEN trs[t].solo
       ELSE TRUE

track_active(trs, track_id) ==
    LET solo_on == \E k \in DOMAIN trs : trs[k].solo
        t == find_track(trs, track_id)
    IN IF t = 0 THEN FALSE
       ELSE IF solo_on THEN trs[t].solo
       ELSE ~trs[t].mute

\* float(getattr(ev, "velocity", 1.0) or 1.0): None (-1) and 0.0 are falsy
gain_velocity(velocity) == IF velocity = -1 \/ velocity = 0 THEN 100 ELSE velocity

\* what the loop does with event i: which "continue" it takes, whether
\* _load_wav raises on it, or that it is mixed
Disposition(s, files, preset_dir, rng, i) ==
    LET ev == s.events[i]
        tr == LastIdx({k \in DOMAIN s.tracks : s.tracks[k].id = ev.track_id})
        sp == _find_sample_path(s, ev.sample_id, files, preset_dir)
    IN IF ev.start_tick < rng.start_tick \/ ev.start_tick >= rng.end_tick
       THEN "out_of_range"
       ELSE IF ~track_active(s.tracks, ev.track_id) THEN "inactive"
       ELSE IF tr = 0 THEN "no_track"
       ELSE IF sp = NoPath \/ sp \notin files.exists THEN "no_sample"
       ELSE IF sp \notin files.readable THEN "unreadable"
       ELSE "mixed"

\* the row of event i: its disposition and, when it is mixed, what is added
Row(s, rng, d, i) ==
    LET ev == s.events[i]
        tr == LastIdx({k \in DOMAIN s.tracks : s.tracks[k].id = ev.track_id})
    IN IF d # "mixed"
       THEN [id |-> ev.id, disposition |-> d, at |-> 0, dur |-> 0, gain |-> 0, pan |-> 0]
       ELSE [id |-> ev.id, disposition |-> d,
             at |-> ev.start_tick - rng.start_tick,
             dur |-> Max(1, ev.duration_tick),
             gain |-> s.tracks[tr].volume * gain_velocity(ev.velocity),
             pan |-> s.tracks[tr].pan]

\* render_mix_to_wav: err is the exception that ends it, written whether
\* out_wav was written, rows what became of each event, master the
\* contributions in the buffer.  An event that starts inside the range starts
\* inside the buffer, so the start_i >= total_samples skip is never taken.
render_mix_to_wav(s, files, preset_dir, region) ==
    LET rng == render_range(s.meta, region)
        region_ticks == Max(0, rng.end_tick - rng.start_tick)
        n == Len(s.events)
        disp == [i \in 1..n |-> Disposition(s, files, preset_dir, rng, i)]
        stop == FirstIdx({i \in 1..n : disp[i] = "unreadable"})
        rows == [i \in 1..n |->
                    Row(s, rng, IF stop # 0 /\ i > stop THEN "not_reached" ELSE disp[i], i)]
        Mixed(r) == r.disposition = "mixed"
        base == [err |-> "", written |-> FALSE, start_tick |-> rng.start_tick,
                 end_tick |-> rng.end_tick, region_ticks |-> region_ticks,
                 rows |-> << >>, master |-> << >>]
    IN IF s.meta.bpm = 0 THEN [base EXCEPT !.err = "ZeroDivisionError"]
       ELSE IF stop # 0
       THEN [base EXCEPT !.err = "LibsndfileError", !.rows = rows,
                         !.master = SelectSeq(rows, Mixed)]
       ELSE [base EXCEPT !.written = TRUE, !.rows = rows,
                         !.master = SelectSeq(rows, Mixed)]

----------------------------------------------------------------------------
(* Inputs of the calls *)

\* track 9 is the id of no track; id -1 is an id new_id never hands out
DrumTrackInputs == {1, 9}
NoteTrackInputs == {4, 9}
\* the argument left at None, an empty string, a sample id
NoteSampleInputs == {"None", "", "pad_A1_001"}
TickInputs == {0, 20}
DurationInputs == {0, 20}
StartInputs == {IntT(0), StrT(<<"2", ":", "5">>), StrT(<<"2", "5">>)}
NoteStartInputs == {IntT(20), StrT(<<"2", ":", "x">>)}
\* (event_id, event_ref) pairs: an id that exists, an unknown id beside a
\* reference, each reference alone, and neither
TargetInputs ==
    { <<1, "None">>, <<-1, "last_created">>, <<0, "last_created">>,
      <<0, "last_selected">>, <<0, "None">> }
IdInputs == {1, 2, -1}
DeltaInputs == {-4, 100}
PitchInputs == {<<"C", "4">>}
SemitoneInputs == {12, -24, 1, -1}
ToleranceInputs == {0, 4}
PatternInputs == {"four_on_the_floor", "backbeat", "hihat_8th", "shuffle"}
UndoSteps == {-1, 0, 1, 2, 3}
BarsInputs == 0..MaxBars
BarArgInputs == {1, MaxBars}
\* the registry entry of a generated sample; the rest of its path stands for
\* samples/<project>/<sample id>.wav
SampleEntry(sid) ==
    [kind |-> "melodic", instrument |-> "bass", base_pitch |-> "A1",
     prompt |-> "deep bass", path |-> PathOf("/files/", sid)]
\* sample registries: empty, holding one generated sample, holding two
SampleRegistries ==
    { << >>,
      [sid \in {"gen_001"} |-> SampleEntry(sid)],
      [sid \in {"gen_001", "gen_002"} |-> SampleEntry(sid)] }
\* the files under the storage directory: those of the sample ids in ex
\* exist, those in rd can be read
StorageFiles(ex, rd) ==
    [exists |-> {PathOf("storage/", sid) : sid \in ex},
     readable |-> {PathOf("storage/", sid) : sid \in rd}]
\* a registry and the files beside it: both samples fine; the file of the
\* second missing; the file of the second unreadable (a sample id that is
\* not registered at all is the track default "pad_A1_001")
RenderScenarios ==
    { [samples |-> [sid \in {"gen_001", "gen_002"} |-> SampleEntry(sid)],
       files |-> StorageFiles({"gen_001", "gen_002"}, {"gen_001", "gen_002"})],
      [samples |-> [sid \in {"gen_001", "gen_002"} |-> SampleEntry(sid)],
       files |-> StorageFiles({"gen_001"}, {"gen_001"})],
      [samples |-> [sid \in {"gen_001", "gen_002"} |-> SampleEntry(sid)],
       files |-> StorageFiles({"gen_001", "gen_002"}, {"gen_001"})] }
\* no region (mixdown) and the regions of a preview request: the first bar,
\* the second, one that starts after the last bar, one longer than the project
RegionInputs ==
    { NoRegion, Region(1, 1), Region(2, 1), Region(MaxBars + 1, 2), Region(1, BarsMax) }
\* the body of a track update request: one field given (volume in hundredths)
TrackPatches ==
    { [field |-> "mute", flag |-> TRUE, volume |-> 0],
      [field |-> "solo", flag |-> TRUE, volume |-> 0],
      [field |-> "volume", flag |-> FALSE, volume |-> 50] }
TrackIdInputs == {1, 2, 9}
\* what is done to the record between to_dict and from_dict: nothing, its
\* ticks_per_bar and total_ticks overwritten, its optional meta keys removed
RecordEdits == {"none", "derived_overwritten", "optional_removed"}
\* "bpm N" in a chat message: N is any run of digits
BpmInputs == {0, 120, 999}
\* the bpm of a meta update request: the ends of the range its schema admits
BpmRequestInputs == {BpmMin, BpmMax}
\* pitch strings: plain, sharp, lower case, blanks around, two-digit, signed
\* and zero-padded octaves, and strings that are no pitch
PitchStrings ==
    { <<"A", "1">>, <<"C", "#", "4">>, <<"B", "0">>, <<"a", "1">>,
      <<" ", "A", "#", "1", " ">>, <<"C", "1", "0">>, <<"A", "-", "1">>,
      <<"D", "0", "2">>, <<"H", "1">>, <<"C">>, <<"C", "x">>, <<"C", "#">>, << >> }
\* "bar:step" is written for these bars and every step of a bar
TimeBarInputs == {1, 2, 11}
TimeInputs ==
    { StrT(IntToStr(bar) \o <<":">> \o IntToStr(step)) :
          bar \in TimeBarInputs, step \in 1..ticks_per_bar }
    \cup { IntT(0), IntT(20), IntT(-3) }
    \cup { StrT(<<"2", "5">>), StrT(<<"2", ":", "x">>), StrT(<<"x", ":", "1">>),
           StrT(<<":">>), StrT(<<"1", ":", "2", ":", "3">>), StrT(<< >>),
           StrT(<<" ", "1", ":", " ", "3">>), StrT(<<"1", ".", "5", ":", "2">>) }

----------------------------------------------------------------------------
(* The state machine *)

Cur ==
    [events |-> events, stack |-> history_events_stack,
     created |-> last_created_event_ids, selected |-> last_selected_event_ids,
     next |-> next_id, ret |-> RetNone, err |-> ""]

Pre ==
    [events |-> events, stack |-> history_events_stack,
     created |-> last_created_event_ids, selected |-> last_selected_event_ids,
     bars |-> bars, bpm |-> bpm, tracks |-> tracks]

NoCall == [op |-> "init", args |-> [none |-> TRUE], pre |-> [none |-> TRUE],
           ret |-> RetNone, err |-> ""]

NoProbe == [fn |-> "none"]

\* no status query has been made
NoQuery ==
    [pc |-> "idle", job_id |-> 0, status |-> "", progress |-> 0, message |-> "",
     result |-> "", error |-> ""]

\* JobQueue(): no job, the lock free; create_default_project: no samples
JobsIdle ==
    /\ _jobs = << >>
    /\ threads = << >>
    /\ lock = 0
    /\ query = NoQuery
    /\ state_samples = {}

\* create_default_project: no events; get_ctx: an empty ExecContext
Fresh ==
    [events |-> << >>, stack |-> << >>, created |-> << >>, selected |-> << >>,
     next |-> 1, ret |-> RetNone, err |-> ""]

\* a project in which a bass note (bar 2, beat 2) and then a kick (tick 0)
\* have been placed
Seeded(b) ==
    place_drum(place_note(Fresh, b, 2, IntT(20), 4, "None", <<"A", "1">>, 85),
               b, 1, IntT(0), 1, "drum_kick_001", 90)

Init ==
    /\ tracks = DefaultTracks
    /\ bars \in {1, MaxBars}
    /\ \E S \in {Fresh, Seeded(bars)} :
        /\ events = S.events
        /\ history_events_stack = S.stack
        /\ last_created_event_ids = S.created
        /\ last_selected_event_ids = S.selected
        /\ next_id = S.next
    /\ nops = 0
    /\ last = NoCall
    /\ prev = NoCall
    /\ probe = NoProbe
    /\ bpm = 120
    /\ JobsIdle

\* a call of an engine tool: R is the record the tool returns
Commit(op, args, R) ==
    /\ nops < MaxOps
    /\ nops' = nops + 1
    /\ events' = R.events
    /\ history_events_stack' = R.stack
    /\ last_created_event_ids' = R.created
    /\ last_selected_event_ids' = R.selected
    /\ next_id' = R.next
    /\ bars' = bars
    /\ prev' = last
    /\ last' = [op |-> op, args |-> args, pre |-> Pre, ret |-> R.ret, err |-> R.err]
    /\ probe' = probe
    /\ UNCHANGED <<bpm, tracks, jobvars>>

PlaceDrum ==
    \E track_id \in DrumTrackInputs, start \in StartInputs,
       duration_tick \in DurationInputs :
        Commit("place_drum",
               [track_id |-> track_id, start |-> start, duration_tick |-> duration_tick],
               place_drum(Cur, bars, track_id, start, duration_tick, "drum_kick_001", 90))

PlaceNote ==
    \E track_id \in NoteTrackInputs, start \in NoteStartInputs,
       sample_id \in NoteSampleInputs :
        Commit("place_note",
               [track_id |-> track_id, start |-> start, duration_tick |-> 4,
                sample_id |-> sample_id],
               place_note(Cur, bars, track_id, start, 4, sample_id, <<"A", "1">>, 85))

MoveEvent ==
    \E tg \in TargetInputs, delta_tick \in DeltaInputs :
        Commit("move_event",
               [event_id |-> tg[1], event_ref |-> tg[2], delta_tick |-> delta_tick],
               move_event(Cur, bars, tg[1], tg[2], delta_tick))

DeleteEvent ==
    \E tg \in TargetInputs :
        Commit("delete_event", [event_id |-> tg[1], event_ref |-> tg[2]],
               delete_event(Cur, tg[1], tg[2]))

SetEventStart ==
    \E event_id \in {1, -1}, start_tick \in {100} :
        Commit("set_event_start", [event_id |-> event_id, start_tick |-> start_tick],
               set_event_start(Cur, bars, event_id, start_tick))

SetPitch ==
    \E tg \in TargetInputs, pitch \in PitchInputs :
        Commit("set_pitch",
               [event_id |-> tg[1], event_ref |-> tg[2], pitch |-> pitch],
               set_pitch(Cur, tg[1], tg[2], pitch))

TransposeEvent ==
    \E tg \in TargetInputs, semitone \in SemitoneInputs :
        Commit("transpose_event",
               [event_id |-> tg[1], event_ref |-> tg[2], semitone |-> semitone],
               transpose_event(Cur, tg[1], tg[2], semitone))

ToggleDrumStep ==
    \E track_id \in DrumTrackInputs, start_tick \in TickInputs,
       tolerance_tick \in ToleranceInputs :
        Commit("toggle_drum_step",
               [track_id |-> track_id, start_tick |-> start_tick,
                sample_id |-> "drum_kick_001", duration_tick |-> 1, velocity |-> 90,
                tolerance_tick |-> tolerance_tick],
               toggle_drum_step(Cur, bars, track_id, start_tick, "drum_kick_001", 1, 90,
                                tolerance_tick))

ToggleDrum ==
    \E track_id \in DrumTrackInputs, start_tick \in {0}, drum \in {"kick", "hihat"} :
        Commit("toggle_drum",
               [track_id |-> track_id, start_tick |-> start_tick, drum |-> drum,
                duration_tick |-> 1, velocity |-> 90],
               toggle_drum(Cur, bars, track_id, start_tick, drum, 1, 90))

ApplyDrumPattern ==
    \E pattern \in PatternInputs, bars_arg \in BarArgInputs, base_bar \in BarArgInputs :
        Commit("apply_drum_pattern",
               [pattern |-> pattern, bars |-> bars_arg, base_bar |-> base_bar],
               apply_drum_pattern(Cur, bars, bars_arg, pattern, base_bar))

ApplyPatternFour ==
    \E drum \in {"kick"}, overwrite \in BOOLEAN :
        Commit("apply_pattern_four",
               [track_id |-> 1, drum |-> drum, overwrite |-> overwrite],
               apply_pattern_four(Cur, bars, 1, drum, 95, overwrite))

Undo ==
    \E steps \in UndoSteps :
        Commit("undo", [steps |-> steps], undo(Cur, steps))

\* POST actions/select: 404 unless the event exists, else ctx.set_selected
SelectEvent ==
    \E event_id \in IdInputs :
        /\ \E i \in 1..Len(events) : events[i].id = event_id
        /\ Commit("select", [event_id |-> event_id],
                  [Cur EXCEPT !.selected = set_selected(@, event_id)])

\* a change of meta.bars that rewrites the events to evs
BarsChange(op, value, evs) ==
    /\ nops < MaxOps
    /\ nops' = nops + 1
    /\ bars' = value
    /\ events' = evs
    /\ prev' = last
    /\ last' = [op |-> op, args |-> [value |-> value], pre |-> Pre,
                ret |-> RetNone, err |-> ""]
    /\ UNCHANGED <<history_events_stack, last_created_event_ids,
                   last_selected_event_ids, next_id, probe, bpm, tracks, jobvars>>

\* chat rule command "N마디": set_bars, then recompute_meta
SetBars ==
    \E value \in BarsInputs :
        BarsChange("set_bars", value, recompute_meta(events, value))

\* PATCH meta with bars given (1..64 by the request schema)
UpdateMeta ==
    \E value \in 1..MaxBars :
        BarsChange("update_meta", value, update_meta_events(events, value))

\* a change of meta.bpm that rewrites the events to evs
BpmChange(op, value, evs) ==
    /\ nops < MaxOps
    /\ nops' = nops + 1
    /\ bpm' = value
    /\ events' = evs
    /\ prev' = last
    /\ last' = [op |-> op, args |-> [value |-> value], pre |-> Pre,
                ret |-> RetNone, err |-> ""]
    /\ UNCHANGED <<bars, history_events_stack, last_created_event_ids,
                   last_selected_event_ids, next_id, probe, tracks, jobvars>>

\* chat rule command "bpm N": apply_command sets meta.bpm = int(value)
SetBpm ==
    \E value \in BpmInputs :
        BpmChange("set_bpm", value, events)

\* PATCH meta with bpm given (40..240 by the request schema); the clamp loop
\* runs on every update
UpdateMetaBpm ==
    \E value \in BpmRequestInputs :
        BpmChange("update_meta_bpm", value, update_meta_events(events, bars))

\* the ProjectState the variables describe, with a sample registry
ProjectStateOf(samples) ==
    [id |-> "proj_1", name |-> "My Project",
     meta |-> ProjectMeta(<<beats_per_bar, 4>>, bpm, bars, ticks_per_beat, 0),
     tracks |-> tracks, events |-> events, samples |-> samples]

\* the record to_dict gives, edited before it is read back
EditedRecord(d, edit) ==
    CASE edit = "derived_overwritten"
           -> [d EXCEPT !.meta = [@ EXCEPT !.ticks_per_bar = 999, !.total_ticks = 7]]
      [] edit = "optional_removed"
           -> [d EXCEPT !.meta = [k \in {"time_signature", "bpm", "bars"} |-> @[k]]]
      [] OTHER -> d

\* to_dict of the project, then from_dict of the (edited) record
FromDict ==
    \E samples \in SampleRegistries, edit \in RecordEdits :
        LET s == ProjectStateOf(samples)
            d == EditedRecord(to_dict(s), edit)
            out == from_dict(d)
        IN /\ probe' = [fn |-> "from_dict", s |-> s, d |-> d, edit |-> edit, out |-> out,
                        out_ticks_per_bar |-> ProjectMeta_ticks_per_bar(out.meta),
                        out_total_ticks |-> ProjectMeta_total_ticks(out.meta)]
           /\ UNCHANGED <<events, bars, history_events_stack, last_created_event_ids,
                          last_selected_event_ids, next_id, nops, last, prev,
                          bpm, tracks, jobvars>>

\* PATCH tracks/{track_id}: 404 when no track has the id, else the given
\* field is set
UpdateTrack ==
    \E track_id \in TrackIdInputs, patch \in TrackPatches :
        LET t == find_track(tracks, track_id)
        IN /\ nops < MaxOps
           /\ nops' = nops + 1
           /\ tracks' = IF t = 0 THEN tracks
                         ELSE CASE patch.field = "mute"
                                     -> [tracks EXCEPT ![t].mute = patch.flag]
                                [] patch.field = "solo"
                                     -> [tracks EXCEPT ![t].solo = patch.flag]
                                [] OTHER
                                     -> [tracks EXCEPT ![t].volume = patch.volume]
           /\ prev' = last
           /\ last' = [op |-> "update_track",
                       args |-> [track_id |-> track_id, patch |-> patch], pre |-> Pre,
                       ret |-> RetNone, err |-> IF t = 0 THEN "404" ELSE ""]
           /\ UNCHANGED <<events, bars, history_events_stack, last_created_event_ids,
                          last_selected_event_ids, next_id, probe, bpm, jobvars>>

\* a render job: the project is loaded and render_mix_to_wav runs on it; the
\* configuration names no preset directory, so preset_dir is None
Render ==
    \E sc \in RenderScenarios, region \in RegionInputs :
        LET s == ProjectStateOf(sc.samples)
        IN /\ probe' = [fn |-> "render", s |-> s, files |-> sc.files, region |-> region,
                        out |-> render_mix_to_wav(s, sc.files, FALSE, region)]
           /\ UNCHANGED <<events, bars, history_events_stack, last_created_event_ids,
                          last_selected_event_ids, next_id, nops, last, prev,
                          bpm, tracks, jobvars>>

\* a direct call of parse_time
ParseTime ==
    \E t \in TimeInputs :
        /\ probe' = [fn |-> "parse_time", t |-> t, out |-> parse_time(t)]
        /\ UNCHANGED <<events, bars, history_events_stack, last_created_event_ids,
                       last_selected_event_ids, next_id, nops, last, prev,
                       bpm, tracks, jobvars>>

\* a direct call of transpose_pitch, on a pitch string or on the result of
\* the call before (a result is fed back once)
TransposePitch ==
    \E semitone \in SemitoneInputs :
        /\ \/ \E pitch \in PitchStrings :
                 probe' = [fn |-> "transpose_pitch", pitch |-> pitch,
                           semitone |-> semitone,
                           out |-> transpose_pitch(pitch, semitone),
                           fed_back |-> FALSE,
                           first |-> [pitch |-> pitch, semitone |-> semitone]]
           \/ /\ probe.fn = "transpose_pitch"
              /\ ~probe.fed_back
              /\ probe.out # NONE
              /\ probe' = [fn |-> "transpose_pitch", pitch |-> probe.out,
                           semitone |-> semitone,
                           out |-> transpose_pitch(probe.out, semitone),
                           fed_back |-> TRUE,
                           first |-> [pitch |-> probe.pitch,
                                      semitone |-> probe.semitone]]
        /\ UNCHANGED <<events, bars, history_events_stack, last_created_event_ids,
                       last_selected_event_ids, next_id, nops, last, prev,
                       bpm, tracks, jobvars>>

\* an editing session on single events
Next ==
    \/ PlaceDrum
    \/ PlaceNote
    \/ MoveEvent
    \/ DeleteEvent
    \/ SetEventStart
    \/ SetPitch
    \/ TransposeEvent
    \/ Undo
    \/ SelectEvent

Spec == Init /\ [][Next]_vars

\* a drum-grid session: step toggles, pattern templates, bar-count changes
NextDrum ==
    \/ PlaceDrum
    \/ ToggleDrumStep
    \/ ToggleDrum
    \/ ApplyDrumPattern
    \/ ApplyPatternFour
    \/ Undo
    \/ SetBars
    \/ UpdateMeta

SpecDrum == Init /\ [][NextDrum]_vars

\* a 1-bar project holding one note of track 2, placed with any pitch string
InitPitch ==
    /\ tracks = DefaultTracks
    /\ bars = 1
    /\ \E pitch \in PitchStrings :
        LET S == place_note(Fresh, bars, 2, IntT(0), 4, "None", pitch, 85)
        IN /\ events = S.events
           /\ history_events_stack = S.stack
           /\ last_created_event_ids = S.created
           /\ last_selected_event_ids = S.selected
           /\ next_id = S.next
    /\ nops = 0
    /\ last = NoCall
    /\ prev = NoCall
    /\ probe = NoProbe
    /\ bpm = 120
    /\ JobsIdle

\* a session that re-pitches notes
NextPitch ==
    \/ SetPitch
    \/ TransposeEvent

SpecPitch == InitPitch /\ [][NextPitch]_vars

\* the tracks of a project file written before Track had current_sample_id:
\* from_dict builds Track(**t), which leaves the field at its default ""
LegacyTracks ==
    [i \in DOMAIN DefaultTracks |-> [DefaultTracks[i] EXCEPT !.current_sample_id = ""]]

\* a project just created, or one loaded from such a file
InitNote ==
    /\ tracks \in {DefaultTracks, LegacyTracks}
    /\ bars \in {1, MaxBars}
    /\ events = << >>
    /\ history_events_stack = << >>
    /\ last_created_event_ids = << >>
    /\ last_selected_event_ids = << >>
    /\ next_id = 1
    /\ nops = 0
    /\ last = NoCall
    /\ prev = NoCall
    /\ probe = NoProbe
    /\ bpm = 120
    /\ JobsIdle

\* a session that writes notes and takes them back
NextNote ==
    \/ PlaceNote
    \/ Undo

SpecNote == InitNote /\ [][NextNote]_vars

\* a session that changes the project meta: chat rule commands and PATCH meta
NextMeta ==
    \/ PlaceDrum
    \/ SetBpm
    \/ SetBars
    \/ UpdateMeta
    \/ UpdateMetaBpm

SpecMeta == Init /\ [][NextMeta]_vars

\* a project to render: on the drum track a hit (tick 0) and a silent hit
\* (tick 4, velocity 0.0) of the second sample, a bass note in bar 2 placed
\* with velocity None, a hit on a track that does not exist, and a pad note
\* with the track's default sample
RenderSeed(b) ==
    LET S1 == place_drum(Fresh, b, 1, IntT(0), 1, "gen_001", 90)
        S2 == place_drum(S1, b, 1, IntT(4), 1, "gen_002", 0)
        S3 == place_note(S2, b, 2, IntT(20), 4, "gen_001", <<"A", "1">>, -1)
        S4 == place_drum(S3, b, 9, IntT(0), 1, "gen_001", 90)
    IN place_note(S4, b, 3, IntT(8), 4, "None", <<"A", "1">>, 80)

InitRender ==
    /\ tracks = DefaultTracks
    /\ bars \in {1, MaxBars}
    /\ LET S == RenderSeed(bars)
       IN /\ events = S.events
          /\ history_events_stack = S.stack
          /\ last_created_event_ids = S.created
          /\ last_selected_event_ids = S.selected
          /\ next_id = S.next
    /\ nops = 0
    /\ last = NoCall
    /\ prev = NoCall
    /\ probe = NoProbe
    /\ bpm = 120
    /\ JobsIdle

\* a mixing session: track controls and render jobs
NextRender ==
    \/ UpdateTrack
    \/ Render

SpecRender == InitRender /\ [][NextRender]_vars

\* direct calls of the pure functions
NextPure ==
    \/ ParseTime
    \/ TransposePitch
    \/ FromDict

SpecPure == Init /\ [][NextPure]_vars

----------------------------------------------------------------------------
(* The chat route: a plan of tool calls, validated against the plan schema *)
(* and run by the executor on the loaded project and the in-memory context *)

\* capabilities.py: the tools advertised to the planner
CAPABILITIES ==
    {"toggle_drum", "apply_pattern_four", "place_note", "move_event",
     "delete_event", "set_pitch", "transpose_event", "undo"}

\* plan_schema.py: the Literal of tool names a PlanAction may carry
ToolName == {"place_drum", "place_note", "move_event", "delete_event", "undo"}

\* the keyword arguments of one action: given is the set of keys present
NoArgs ==
    [given |-> {}, track_id |-> 0, start |-> IntT(0), duration_tick |-> 0,
     pitch |-> << >>, event_ref |-> "None", delta_tick |-> 0, steps |-> 0,
     semitone |-> 0, drum |-> "", velocity |-> 0, overwrite |-> FALSE]

\* args.get(key, default) / a keyword left to the tool's default
Arg(a, key, default) == IF key \in a.given THEN a[key] ELSE default

\* PlanAction(tool=..., args=...): pydantic rejects a tool outside ToolName
PlanAction(tool, args) == [ok |-> tool \in ToolName, tool |-> tool, args |-> args]

\* Plan(actions=[...]) built from already constructed actions; err is the
\* exception of the first constructor that raised
Plan(actions) ==
    IF \E i \in 1..Len(actions) : ~actions[i].ok
    THEN [err |-> "ValidationError", actions |-> << >>]
    ELSE [err |-> "", actions |-> actions]

\* the PlanAction the matching rule of rule_first_plan constructs
RuleActions(message) ==
    CASE message = "undo" ->
           <<PlanAction("undo", [NoArgs EXCEPT !.given = {"steps"}, !.steps = 1])>>
      [] message = "pattern four" ->
           <<PlanAction("apply_pattern_four",
                  [NoArgs EXCEPT !.given = {"track_id", "drum", "velocity", "overwrite"},
                                 !.track_id = 1, !.drum = "kick", !.velocity = 95,
                                 !.overwrite = FALSE])>>
      [] message = "place bass A1 2:5" ->
           <<PlanAction("place_note",
                  [NoArgs EXCEPT !.given = {"track_id", "start", "duration_tick", "pitch"},
                                 !.track_id = 2, !.start = StrT(<<"2", ":", "5">>),
                                 !.duration_tick = 4, !.pitch = <<"A", "1">>])>>
      [] message = "move selected +4" ->
           <<PlanAction("move_event",
                  [NoArgs EXCEPT !.given = {"event_ref", "delta_tick"},
                                 !.event_ref = "last_selected", !.delta_tick = 4])>>
      [] message = "delete selected" ->
           <<PlanAction("delete_event",
                  [NoArgs EXCEPT !.given = {"event_ref"}, !.event_ref = "last_selected"])>>
      [] message = "set pitch C4" ->
           <<PlanAction("set_pitch",
                  [NoArgs EXCEPT !.given = {"event_ref", "pitch"},
                                 !.event_ref = "last_selected", !.pitch = <<"C", "4">>])>>
      [] message = "transpose +2" ->
           <<PlanAction("transpose_event",
                  [NoArgs EXCEPT !.given = {"event_ref", "semitone"},
                                 !.event_ref = "last_selected", !.semitone = 2])>>

\* rule_first_plan for the messages the rules recognise
rule_first_plan(message) == Plan(RuleActions(message))

\* GemmaPlanner.make_plan on the JSON of the language model: a plan the
\* schema rejects is replaced by the empty plan
model_validate(plan_json) ==
    LET p == Plan([i \in 1..Len(plan_json) |->
                      PlanAction(plan_json[i].tool, plan_json[i].args)])
    IN IF p.err # "" THEN [err |-> "", actions |-> << >>] ELSE p

\* PlanExecutor._dispatch: one action to one tool call
_dispatch(S, b, action) ==
    LET a == action.args
        tool == action.tool
    IN CASE tool = "place_drum" ->
              IF {"track_id", "start"} \subseteq a.given
              THEN place_drum(S, b, a.track_id, a.start, Arg(a, "duration_tick", 1),
                              Arg(a, "sample_id", "drum_kick_001"), Arg(a, "velocity", 90))
              ELSE Raise(S, "TypeError")
         [] tool = "place_note" ->
              IF {"track_id", "start"} \subseteq a.given
              THEN place_note(S, b, a.track_id, a.start, Arg(a, "duration_tick", 4),
                              Arg(a, "sample_id", "None"), Arg(a, "pitch", <<"A", "1">>),
                              Arg(a, "velocity", 85))
              ELSE Raise(S, "TypeError")
         [] tool = "move_event" ->
              move_event(S, b, Arg(a, "event_id", 0), Arg(a, "event_ref", "None"),
                         Arg(a, "delta_tick", 0))
         [] tool = "delete_event" ->
              delete_event(S, Arg(a, "event_id", 0), Arg(a, "event_ref", "None"))
         [] tool = "undo" -> undo(S, Arg(a, "steps", 1))
         [] tool = "set_pitch" ->
              set_pitch(S, Arg(a, "event_id", 0), Arg(a, "event_ref", "None"),
                        Arg(a, "pitch", <<"C", "4">>))
         [] tool = "transpose_event" ->
              transpose_event(S, Arg(a, "event_id", 0), Arg(a, "event_ref", "None"),
                              Arg(a, "semitone", 0))
         [] tool = "apply_drum_pattern" ->
              apply_drum_pattern(S, b, Arg(a, "bars", 1),
                                 Arg(a, "pattern", "four_on_the_floor"),
                                 Arg(a, "base_bar", 1))
         [] tool = "toggle_drum" ->
              IF "start_tick" \in a.given
              THEN toggle_drum(S, b, Arg(a, "track_id", 1), a.start_tick,
                               Arg(a, "drum", "kick"), Arg(a, "duration_tick", 1),
                               Arg(a, "velocity", 90))
              ELSE Raise(S, "TypeError")
         [] tool = "apply_pattern_four" ->
              apply_pattern_four(S, b, Arg(a, "track_id", 1), Arg(a, "drum", "kick"),
                                 Arg(a, "velocity", 95), Arg(a, "overwrite", FALSE))
         [] OTHER -> S

\* PlanExecutor.execute: the actions in order, stopping at the first that
\* raises; ret counts the actions handed to _dispatch
RECURSIVE execute(_, _, _, _)
execute(S, b, actions, n) ==
    IF actions = << >> THEN Return(S, RetInt(n))
    ELSE LET S1 == _dispatch(S, b, Head(actions))
         IN IF S1.err # "" THEN Return(S1, RetInt(n + 1))
            ELSE execute(S1, b, Tail(actions), n + 1)

RuleMessages ==
    {"undo", "pattern four", "place bass A1 2:5", "move selected +4",
     "delete selected", "set pitch C4", "transpose +2"}

GoodNote ==
    [tool |-> "place_note",
     args |-> [NoArgs EXCEPT !.given = {"track_id", "start", "pitch"}, !.track_id = 2,
                             !.start = IntT(8), !.pitch = <<"C", "2">>]]

BadNote ==
    [tool |-> "place_note",
     args |-> [NoArgs EXCEPT !.given = {"track_id", "start"}, !.track_id = 2,
                             !.start = StrT(<<"2", ":", "x">>)]]

SetPitchCall ==
    [tool |-> "set_pitch",
     args |-> [NoArgs EXCEPT !.given = {"event_ref", "pitch"},
                             !.event_ref = "last_created", !.pitch = <<"C", "4">>]]

\* plans the language model may answer with
LLMPlans == { <<GoodNote>>, <<GoodNote, BadNote>>, <<BadNote>>, <<SetPitchCall>> }

ToolsOf(actions) == [i \in 1..Len(actions) |-> actions[i].tool]

\* POST chat, plan phase: the project is loaded from its file, the plan is
\* run on it and on the shared context, and the file is written only when
\* execute returns
chat(op, message, requested, plan) ==
    \E R \in {IF plan.err # "" THEN Raise(Return(Cur, RetInt(0)), plan.err)
               ELSE execute(Cur, bars, plan.actions, 0)} :
       /\ nops < MaxOps
       /\ nops' = nops + 1
       /\ events' = IF R.err = "" THEN R.events ELSE events
       /\ history_events_stack' = R.stack
       /\ last_created_event_ids' = R.created
       /\ last_selected_event_ids' = R.selected
       /\ next_id' = R.next
       /\ prev' = last
       /\ last' = [op |-> op,
                   args |-> [message |-> message, tools |-> requested],
                   pre |-> Pre, ret |-> R.ret, err |-> R.err]
       /\ UNCHANGED <<bars, probe, bpm, tracks, jobvars>>

\* a message one of the rules recognises
ChatRule ==
    \E message \in RuleMessages :
        chat("chat_rule", message, ToolsOf(RuleActions(message)),
             rule_first_plan(message))

\* a message left to the language model, which answers with plan_json
ChatLLM ==
    \E plan_json \in LLMPlans :
        chat("chat_llm", "", ToolsOf(plan_json), model_validate(plan_json))

NextChat ==
    \/ ChatRule
    \/ ChatLLM
    \/ SelectEvent

SpecChat == Init /\ [][NextChat]_vars

----------------------------------------------------------------------------
(* The job queue: jobs in a dictionary behind a lock, one worker thread    *)
(* per job, and the status query that reads a job's fields.  A step of a   *)
(* thread is one field assignment, one field read, or one call that        *)
(* touches the project file.  None for result and error is "None".         *)

\* Job(id=job_id, type=job_type) with the dataclass defaults
Job(id, type) ==
    [id |-> id, type |-> type, status |-> "queued", progress |-> 0,
     message |-> "queued", result |-> "None", error |-> "None"]

\* one assignment job.field = value (n for progress, s for the others)
W(field, n, s) == [field |-> field, n |-> n, s |-> s]

Assign(job, w) ==
    IF w.field = "progress" THEN [job EXCEPT !.progress = w.n]
    ELSE [job EXCEPT ![w.field] = w.s]

\* JobQueue.get: the Job object itself, or None (0)
JobQueue_get(job_id) == IF job_id \in 1..Len(_jobs) THEN job_id ELSE 0

\* JobQueue.update: the assignments made under the lock
update(progress, message) ==
    <<W("progress", Max(0, Min(progress, 100)), ""), W("message", 0, message)>>

\* _run_job, first block
_run_job_running ==
    <<W("status", 0, "running"), W("progress", 1, ""), W("message", 0, "running")>>

\* a completion that leaves progress where the task put it
_run_job_done_keeps_progress(result) ==
    <<W("status", 0, "done"), W("message", 0, "done"), W("result", 0, result)>>

\* _run_job, the block after fn returned
_run_job_done(result) ==
    <<W("status", 0, "done"), W("progress", 100, ""), W("message", 0, "done"),
      W("result", 0, result)>>

\* an except block that records the error and leaves the status alone
_run_job_failed_keeps_status(e) ==
    <<W("message", 0, "failed"), W("error", 0, e)>>

\* _run_job, the except block
_run_job_failed(e) ==
    <<W("status", 0, "failed"), W("message", 0, "failed"), W("error", 0, e)>>

\* one instruction of a worker thread
Ins(op, writes) == [op |-> op, writes |-> writes]

\* _run_job with the _task of create_render_preview inlined
render_preview_task ==
    <<Ins("locked", _run_job_running),
      Ins("locked", update(5, "loading project")),
      Ins("load", << >>),
      Ins("locked", update(35, "mixing preview")),
      Ins("work", << >>),
      Ins("locked", update(95, "done"))>>

\* _run_job with the _task of create_generate_sample inlined (preset off)
generate_sample_task ==
    <<Ins("locked", _run_job_running),
      Ins("locked", update(5, "loading project")),
      Ins("load", << >>),
      Ins("locked", update(30, "generating with Stable Audio Open")),
      Ins("work", << >>),
      Ins("locked", update(85, "registering generated sample")),
      Ins("save", << >>)>>

JobTypes == {"render_preview", "generate_sample"}

Program(type) ==
    IF type = "render_preview" THEN render_preview_task ELSE generate_sample_task

\* the dict fn returns
ResultOf(type) == IF type = "render_preview" THEN "wav_url" ELSE "sample_id"

\* the project as ProjectState.load reads it from the file
LoadedState ==
    [events |-> events, samples |-> state_samples, bars |-> bars, bpm |-> bpm,
     tracks |-> tracks]

NoState == [events |-> << >>, samples |-> {}, bars |-> 0, bpm |-> 0, tracks |-> << >>]

\* Thread(target=self._run_job, ...): pc is the instruction to run next,
\* pending the assignments left in the critical section it is in, exc the
\* text of the exception fn raised, state the project the task loaded
Thread(type) ==
    [type |-> type, pc |-> 1, pending |-> << >>, exc |-> "None", state |-> NoState]

Finish(type) == Len(Program(type)) + 1

\* the instruction thread j is at; past the task it is the block that
\* records the outcome
Current(j) ==
    LET th == threads[j]
    IN IF th.pc <= Len(Program(th.type)) THEN Program(th.type)[th.pc]
       ELSE IF th.pc > Finish(th.type) THEN Ins("end", << >>)
       ELSE IF th.exc = "None" THEN Ins("locked", _run_job_done(ResultOf(th.type)))
       ELSE Ins("locked", _run_job_failed(th.exc))

\* POST jobs/render_preview, jobs/generate_sample: JobQueue.create puts the
\* job in the dictionary under the lock, starts its thread, returns its id
CreateJob ==
    \E type \in JobTypes :
        LET job_id == Len(_jobs) + 1
        IN /\ nops < MaxOps
           /\ lock = 0
           /\ nops' = nops + 1
           /\ _jobs' = Append(_jobs, Job(job_id, type))
           /\ threads' = Append(threads, Thread(type))
           /\ prev' = last
           /\ last' = [op |-> "create_job", args |-> [type |-> type], pre |-> Pre,
                       ret |-> RetId(job_id), err |-> ""]
           /\ UNCHANGED <<events, bars, history_events_stack, last_created_event_ids,
                          last_selected_event_ids, next_id, probe, bpm, tracks,
                          lock, query, state_samples>>

\* a worker inside "with self._lock": it takes the lock with its first
\* assignment and gives it back with its last
WorkerLocked(j) ==
    LET th == threads[j]
        writes == IF th.pending # << >> THEN th.pending ELSE Current(j).writes
        rest == Tail(writes)
    IN /\ Current(j).op = "locked"
       /\ IF th.pending # << >> THEN lock = j ELSE lock = 0
       /\ _jobs' = [_jobs EXCEPT ![j] = Assign(@, Head(writes))]
       /\ threads' = [threads EXCEPT ![j].pending = rest,
                                     ![j].pc = IF rest = << >> THEN @ + 1 ELSE @]
       /\ lock' = IF rest = << >> THEN 0 ELSE j
       /\ UNCHANGED <<events, bars, history_events_stack, last_created_event_ids,
                      last_selected_event_ids, next_id, nops, last, prev, probe,
                      bpm, tracks, query, state_samples>>

\* state = ProjectState.load(path)
TaskLoad(j) ==
    /\ Current(j).op = "load"
    /\ threads' = [threads EXCEPT ![j].state = LoadedState, ![j].pc = @ + 1]
    /\ UNCHANGED <<events, bars, history_events_stack, last_created_event_ids,
                   last_selected_event_ids, next_id, nops, last, prev, probe,
                   bpm, tracks, _jobs, lock, query, state_samples>>

\* render_mix_to_wav / generate_to_wav: returns, or raises (the output
\* cannot be written, the model cannot be loaded)
TaskWork(j) ==
    /\ Current(j).op = "work"
    /\ \E ok \in BOOLEAN :
         threads' = IF ok THEN [threads EXCEPT ![j].pc = @ + 1]
                    ELSE [threads EXCEPT ![j].exc = "OSError",
                                         ![j].pc = Finish(threads[j].type)]
    /\ UNCHANGED <<events, bars, history_events_stack, last_created_event_ids,
                   last_selected_event_ids, next_id, nops, last, prev, probe,
                   bpm, tracks, _jobs, lock, query, state_samples>>

\* state.samples[sid] = {...}; state.save(path): the loaded project, with
\* the new sample, replaces the file
TaskSave(j) ==
    LET st == threads[j].state
    IN /\ Current(j).op = "save"
       /\ events' = st.events
       /\ bars' = st.bars
       /\ bpm' = st.bpm
       /\ tracks' = st.tracks
       /\ state_samples' = st.samples \cup {j}
       /\ threads' = [threads EXCEPT ![j].pc = @ + 1]
       /\ prev' = last
       /\ last' = [op |-> "job_save", args |-> [job_id |-> j], pre |-> Pre,
                   ret |-> RetNone, err |-> ""]
       /\ UNCHANGED <<history_events_stack, last_created_event_ids,
                      last_selected_event_ids, next_id, nops, probe,
                      _jobs, lock, query>>

\* the fields of the response of get_job, in the order the dict reads them
ReadOrder == <<"status", "progress", "message", "result", "error">>

\* GET jobs/{job_id}: JOBS.get under the lock hands back the Job object
GetJob ==
    \E job_id \in 1..Len(_jobs) :
        /\ nops < MaxOps
        /\ lock = 0
        /\ query.pc \in {"idle", "done"}
        /\ JobQueue_get(job_id) # 0
        /\ nops' = nops + 1
        /\ query' = [NoQuery EXCEPT !.pc = "status", !.job_id = job_id]
        /\ UNCHANGED <<events, bars, history_events_stack, last_created_event_ids,
                       last_selected_event_ids, next_id, last, prev, probe,
                       bpm, tracks, _jobs, threads, lock, state_samples>>

\* get_job builds the response: one attribute of the Job object is read,
\* outside the lock
ReadField ==
    LET k == CHOOSE i \in 1..Len(ReadOrder) : ReadOrder[i] = query.pc
    IN /\ query.pc \notin {"idle", "done"}
       /\ query' = [query EXCEPT ![query.pc] = _jobs[query.job_id][query.pc],
                                 !.pc = IF k = Len(ReadOrder) THEN "done"
                                        ELSE ReadOrder[k + 1]]
       /\ UNCHANGED <<events, bars, history_events_stack, last_created_event_ids,
                      last_selected_event_ids, next_id, nops, last, prev, probe,
                      bpm, tracks, _jobs, threads, lock, state_samples>>

\* the project as the job queue finds it: one bar, two events
InitJobs == Init /\ bars = 1 /\ events # << >>

Locked == \E j \in 1..Len(threads) : WorkerLocked(j)
Load == \E j \in 1..Len(threads) : TaskLoad(j)
Work == \E j \in 1..Len(threads) : TaskWork(j)
Save == \E j \in 1..Len(threads) : TaskSave(j)

\* jobs, status queries and an edit route (drum toggle) on one project
NextJobs ==
    \/ CreateJob
    \/ Locked
    \/ Load
    \/ Work
    \/ Save
    \/ GetJob
    \/ ReadField
    \/ ToggleDrum

SpecJobs == InitJobs /\ [][NextJobs]_vars

\* a step of worker thread j
WorkerStep(j) ==
    /\ j \in 1..Len(threads)
    /\ WorkerLocked(j) \/ TaskLoad(j) \/ TaskWork(j) \/ TaskSave(j)

\* the workers alone
NextWorkers ==
    \/ CreateJob
    \/ Locked
    \/ Load
    \/ Work
    \/ Save

\* every started thread keeps being scheduled
SpecWorkers ==
    /\ InitJobs
    /\ [][NextWorkers]_vars
    /\ \A j \in 1..MaxOps : WF_vars(WorkerStep(j))

----------------------------------------------------------------------------
(* Properties.  last is the call just made, prev the one before it; last.pre *)
(* holds the event collection, the context and the bar count at its start.   *)

MutatingOps ==
    {"place_drum", "place_note", "move_event", "delete_event", "set_event_start",
     "set_pitch", "transpose_event", "toggle_drum_step", "toggle_drum",
     "apply_drum_pattern", "apply_pattern_four"}

EventIds(evs) == {evs[i].id : i \in 1..Len(evs)}

\* C1: undo(steps=1) called right after a mutating operation m restores the
\* event collection to the value it had before m ran.
C1_UndoInverse ==
    (last.op = "undo" /\ last.args.steps = 1 /\ prev.op \in MutatingOps)
        => events = prev.pre.events

\* C2: every call of a mutating operation, no-op or not, pattern operation or
\* not, leaves the undo stack exactly one entry longer, and that entry is the
\* event collection as it was when the call started.
C2_OneSnapshotPerCall ==
    last.op \in MutatingOps
        => history_events_stack = Append(last.pre.stack, last.pre.events)

IsKickOnTrack1(e) ==
    e.type = "drum" /\ e.track_id = 1 /\ e.sample_id = "drum_kick_001"

FourOnFloorCall ==
    \/ /\ last.op = "apply_drum_pattern"
       /\ last.args.pattern = "four_on_the_floor"
       /\ last.args.bars = 1
       /\ last.args.base_bar = 1
    \/ /\ last.op = "apply_pattern_four"
       /\ last.args.drum = "kick"
       /\ ~last.args.overwrite

\* the 1-bar scenario: an empty project, a kick toggled on at tick 0 of
\* track 1, then the four-on-the-floor pattern
KickThenFourOnFloor ==
    /\ prev.op = "toggle_drum_step"
    /\ prev.pre.bars = 1
    /\ prev.pre.events = << >>
    /\ prev.args.track_id = 1
    /\ prev.args.start_tick = 0
    /\ prev.args.sample_id = "drum_kick_001"
    /\ FourOnFloorCall

\* C3: in a 1-bar project of 16 ticks, a kick toggled on at tick 0 followed by
\* the four-on-the-floor pattern leaves exactly 4 kicks on track 1, at ticks
\* 0, 4, 8 and 12.
C3_FourKicks ==
    KickThenFourOnFloor
        => /\ Len(events) = 4
           /\ \A i \in 1..Len(events) : IsKickOnTrack1(events[i])
           /\ {events[i].start_tick : i \in 1..Len(events)} = {0, 4, 8, 12}

\* the same toggle called twice in a row, tolerance 0
TwoToggles ==
    /\ last.op \in {"toggle_drum_step", "toggle_drum"}
    /\ prev.op = last.op
    /\ prev.args = last.args
    /\ last.op = "toggle_drum_step" => last.args.tolerance_tick = 0

\* C4 as stated: two toggles with the same arguments (tolerance 0) leave the
\* event collection equal by value to the one before the first call.
C4_ToggleInvolution ==
    TwoToggles => events = prev.pre.events

FirstToggleCreated == TwoToggles /\ prev.ret # RetStr("deleted")

ToggleSampleId ==
    IF last.op = "toggle_drum" THEN DRUM_SAMPLE_ID(last.args.drum)
    ELSE last.args.sample_id

\* the events a toggle with last's arguments does not address
NotAddressed(e) ==
    ~(/\ e.type = "drum"
      /\ e.track_id = last.args.track_id
      /\ e.sample_id = ToggleSampleId
      /\ e.start_tick = Max(0, Min(last.args.start_tick, bars * ticks_per_bar)))

\* C4 amended: when the first toggle creates the event, the second removes it
\* and the collection equals the one before the first call; when the first
\* toggle deletes an event the collection is not restored (the second call
\* removes a further match or appends an event under a new id); either way
\* the events the toggle does not address are unchanged.
C4_ToggleCreateThenDelete ==
    TwoToggles
        => /\ FirstToggleCreated => events = prev.pre.events
           /\ ~FirstToggleCreated => events # prev.pre.events
           /\ SelectSeq(events, NotAddressed) = SelectSeq(prev.pre.events, NotAddressed)

C4_Witness ==
    /\ FirstToggleCreated
    /\ prev.pre.events # << >>
    /\ last.ret = RetStr("deleted")

\* C5: every event satisfies 0 <= start_tick <= total_ticks for the current
\* bar count, after any sequence of engine calls, undo calls and bar-count
\* changes (stated for the bar counts a project may have, 1 and up).
C5_StartWithinTotal ==
    bars >= 1
        => \A i \in 1..Len(events) :
              0 <= events[i].start_tick /\ events[i].start_tick <= bars * ticks_per_bar

\* C6: undo(steps=k) on a stack of depth n removes the top min(k, n) snapshots
\* and leaves the events equal to the last one removed; with n = 0 or k <= 0
\* nothing changes; no error, and nothing is pushed.
C6_UndoPops ==
    last.op = "undo"
        => LET k == last.args.steps
               n == Len(last.pre.stack)
               m == IF k <= 0 THEN 0 ELSE IF k <= n THEN k ELSE n
           IN /\ last.err = ""
              /\ Len(history_events_stack) = n - m
              /\ \A i \in 1..(n - m) : history_events_stack[i] = last.pre.stack[i]
              /\ m = 0 => events = last.pre.events
              /\ m > 0 => events = last.pre.stack[n - m + 1]

C6_Witness ==
    /\ last.op = "undo"
    /\ last.args.steps = 2
    /\ Len(last.pre.stack) >= 3
    /\ last.pre.stack[Len(last.pre.stack)] # last.pre.stack[Len(last.pre.stack) - 1]
    /\ events # last.pre.events

RefOps == {"move_event", "delete_event", "set_pitch", "transpose_event"}

\* what a reference slot of the context held when the last call started
SlotBefore(ref) ==
    IF ref = "last_created"
    THEN IF last.pre.created = << >> THEN 0 ELSE last.pre.created[Len(last.pre.created)]
    ELSE IF ref = "last_selected"
    THEN IF last.pre.selected = << >> THEN 0 ELSE last.pre.selected[Len(last.pre.selected)]
    ELSE 0

\* the last call named no event of the collection it started with
TargetMissing ==
    \/ /\ last.op = "set_event_start"
       /\ last.args.event_id \notin EventIds(last.pre.events)
    \/ /\ last.op \in RefOps
       /\ last.args.event_id # 0
       /\ last.args.event_id \notin EventIds(last.pre.events)
    \/ /\ last.op \in RefOps
       /\ last.args.event_id = 0
       /\ SlotBefore(last.args.event_ref) \notin EventIds(last.pre.events)

\* C7: move_event, delete_event, set_pitch, transpose_event and
\* set_event_start whose target is an unknown id, is absent, or is a reference
\* that is empty or names an event no longer in the collection change neither
\* the events nor the reference context, raise nothing, and push one snapshot.
C7_MissingTargetNoOp ==
    TargetMissing
        => /\ events = last.pre.events
           /\ last_created_event_ids = last.pre.created
           /\ last_selected_event_ids = last.pre.selected
           /\ last.err = ""
           /\ history_events_stack = Append(last.pre.stack, last.pre.events)

\* a reference to an event that was deleted after it was created
C7_Witness ==
    /\ last.op = "move_event"
    /\ last.args.event_id = 0
    /\ last.args.event_ref = "last_created"
    /\ last.pre.created # << >>
    /\ last.pre.events # << >>
    /\ TargetMissing

CreatingOps == {"place_drum", "place_note", "toggle_drum_step", "toggle_drum"}

\* C8: a creating operation given a track id no track of the project has is a
\* no-op on the events (and still pushes its one snapshot): no event is ever
\* owned by a track that does not exist.
C8_UnknownTrackNoOp ==
    /\ (last.op \in CreatingOps /\ last.args.track_id \notin TrackIds)
          => /\ events = last.pre.events
             /\ history_events_stack = Append(last.pre.stack, last.pre.events)
    /\ \A i \in 1..Len(events) : events[i].track_id \in TrackIds

\* C9: apply_drum_pattern removes no event that was there, and applying the
\* same pattern to the same bars a second time changes nothing.
C9_PatternIdempotent ==
    last.op = "apply_drum_pattern"
        => /\ \A i \in 1..Len(last.pre.events) :
                 \E j \in 1..Len(events) : events[j] = last.pre.events[i]
           /\ (prev.op = "apply_drum_pattern" /\ prev.args = last.args)
                 => events = last.pre.events

\* the positions a toggle_drum_step call with last's arguments matches in the
\* collection it started with
ToggleMatches ==
    LET t == Max(0, Min(last.args.start_tick, last.pre.bars * ticks_per_bar))
    IN {i \in 1..Len(last.pre.events) :
          /\ last.pre.events[i].type = "drum"
          /\ last.pre.events[i].track_id = last.args.track_id
          /\ last.pre.events[i].sample_id = last.args.sample_id
          /\ Abs(last.pre.events[i].start_tick - t) <= last.args.tolerance_tick}

\* C10: toggle_drum_step with t = clamp_tick(start): if some drum event of the
\* track and sample lies within the tolerance of t, the first such event in
\* collection order is removed and "deleted" returned; otherwise one drum event
\* at t is appended, recorded as last created, and "created" returned; every
\* other event is unchanged.
C10_ToggleDrumStep ==
    last.op = "toggle_drum_step"
        => LET old == last.pre.events
               t == Max(0, Min(last.args.start_tick, last.pre.bars * ticks_per_bar))
               M == ToggleMatches
           IN IF M # {}
              THEN LET m == CHOOSE i \in M : \A j \in M : i <= j
                   IN /\ last.ret = RetStr("deleted")
                      /\ Len(events) = Len(old) - 1
                      /\ \A j \in 1..Len(events) :
                            events[j] = IF j < m THEN old[j] ELSE old[j + 1]
                      /\ last_created_event_ids = last.pre.created
              ELSE /\ last.ret = RetStr("created")
                   /\ Len(events) = Len(old) + 1
                   /\ \A j \in 1..Len(old) : events[j] = old[j]
                   /\ LET e == events[Len(events)]
                      IN /\ e.start_tick = t
                         /\ e.type = "drum"
                         /\ e.track_id = last.args.track_id
                         /\ e.sample_id = last.args.sample_id
                         /\ e.id \notin EventIds(old)
                         /\ last_created_event_ids = Append(last.pre.created, e.id)

\* a toggle that deletes while a later event matches too
C10_Witness ==
    /\ last.op = "toggle_drum_step"
    /\ last.ret = RetStr("deleted")
    /\ Cardinality(ToggleMatches) >= 2

PlaceOps == {"place_drum", "place_note"}

\* a string that int() takes: blanks around an optional sign and digits
IsNumber(x) ==
    LET s == Strip(x)
    IN \/ AllDigits(s)
       \/ s # << >> /\ s[1] \in {"-", "+"} /\ AllDigits(Tail(s))

\* a start argument that is a tick or one "bar:step" pair of numbers
WellFormedTime(t) ==
    \/ t.kind = "int"
    \/ /\ t.kind = "str"
       /\ Cardinality(ColonPositions(t.s)) = 1
       /\ LET c == CHOOSE i \in ColonPositions(t.s) : TRUE
          IN /\ IsNumber(SubSeq(t.s, 1, c - 1))
             /\ IsNumber(SubSeq(t.s, c + 1, Len(t.s)))

\* C11: place_drum and place_note given a valid start append exactly one
\* event, at clamp_tick(parse_time(start)) and with duration max(1, duration);
\* its id is held by no event that was there, is the return value and is what
\* last_created() returns afterwards; the events that were there are unchanged.
C11_PlaceAppendsOne ==
    (last.op \in PlaceOps /\ WellFormedTime(last.args.start))
        => LET old == last.pre.events
               t == parse_time(last.args.start).val
               e == events[Len(events)]
           IN /\ last.err = ""
              /\ Len(events) = Len(old) + 1
              /\ \A j \in 1..Len(old) : events[j] = old[j]
              /\ e.start_tick = Max(0, Min(t, last.pre.bars * ticks_per_bar))
              /\ e.duration_tick = Max(1, last.args.duration_tick)
              /\ e.type = (IF last.op = "place_drum" THEN "drum" ELSE "melodic")
              /\ e.track_id = last.args.track_id
              /\ e.id \notin EventIds(old)
              /\ last.ret = RetId(e.id)
              /\ last_created_event_ids # << >>
              /\ last_created_event_ids[Len(last_created_event_ids)] = e.id

\* a drum placed at "2:5" with duration 0 in a 1-bar project that holds events
C11_Witness ==
    /\ last.op = "place_drum"
    /\ last.args.start.kind = "str"
    /\ WellFormedTime(last.args.start)
    /\ last.args.duration_tick = 0
    /\ last.pre.bars = 1
    /\ last.pre.events # << >>
    /\ events[Len(events)].start_tick = ticks_per_bar

\* the id the last call (one of RefOps) addresses: the explicit id when one is
\* given, else what the named slot held at the start of the call, else 0
TargetOfLast ==
    IF last.args.event_id # 0 THEN last.args.event_id
    ELSE SlotBefore(last.args.event_ref)

\* the positions, in the collection the last call started with, of its target
TargetPositions ==
    {i \in 1..Len(last.pre.events) : last.pre.events[i].id = TargetOfLast}

ContextUnchanged ==
    /\ last_created_event_ids = last.pre.created
    /\ last_selected_event_ids = last.pre.selected

\* C12: move_event takes the explicit id when one is supplied (no fallback to
\* the reference when that id is absent) and else the named slot; the target,
\* if it exists, gets start_tick = clamp_tick(old start_tick + delta) and
\* nothing else changes: its other fields, the other events, the number of
\* events, the reference context.
C12_MoveEvent ==
    last.op = "move_event"
        => LET old == last.pre.events
               M == TargetPositions
           IN /\ ContextUnchanged
              /\ Len(events) = Len(old)
              /\ (TargetOfLast = 0 \/ M = {}) => events = old
              /\ (TargetOfLast # 0 /\ M # {}) =>
                    LET m == CHOOSE i \in M : \A j \in M : i <= j
                        tick == old[m].start_tick + last.args.delta_tick
                    IN events =
                         [old EXCEPT ![m].start_tick =
                             Max(0, Min(tick, last.pre.bars * ticks_per_bar))]

\* a move through last_selected that changes one event of several
C12_Witness ==
    /\ last.op = "move_event"
    /\ last.args.event_id = 0
    /\ last.args.event_ref = "last_selected"
    /\ Len(events) >= 2
    /\ events # last.pre.events

\* C13: delete_event with a resolved target id removes the events having that
\* id (one, ids being unique) and nothing else: the others keep their values
\* and their relative order, the count drops by the number removed, and the
\* reference context is unchanged.
C13_DeleteEvent ==
    (last.op = "delete_event" /\ TargetOfLast # 0)
        => LET old == last.pre.events
               M == TargetPositions
               K == (1..Len(old)) \ M
           IN /\ Cardinality(M) <= 1
              /\ Len(events) = Len(old) - Cardinality(M)
              /\ \A k \in K : events[Cardinality({x \in K : x <= k})] = old[k]
              /\ ContextUnchanged

\* the first of two events is deleted, so the second moves up
C13_Witness ==
    /\ last.op = "delete_event"
    /\ Len(last.pre.events) >= 2
    /\ TargetPositions = {1}
    /\ Len(events) = Len(last.pre.events) - 1

\* C14: every drum event of every reachable state has no pitch, and set_pitch
\* and transpose_event applied to a drum event, by id or by reference, leave
\* the event collection unchanged.
C14_DrumHasNoPitch ==
    /\ \A i \in 1..Len(events) : events[i].type = "drum" => events[i].pitch = NONE
    /\ (/\ last.op \in {"set_pitch", "transpose_event"}
        /\ \E i \in TargetPositions : last.pre.events[i].type = "drum")
          => events = last.pre.events

\* set_pitch aimed through last_created at a drum event
C14_Witness ==
    /\ last.op = "set_pitch"
    /\ last.args.event_id = 0
    /\ last.args.event_ref = "last_created"
    /\ \E i \in TargetPositions : last.pre.events[i].type = "drum"

\* a pitch string as the parser looks at it: blanks around removed, upper case
Normal(p) == LET q == Strip(p) IN [k \in 1..Len(q) |-> Upper(q[k])]

\* p spells the note of index i (0..11) followed by a number, its octave
ParsesAs(p, i) ==
    LET q == Normal(p)
        name == _NOTE_ORDER[i + 1]
    IN /\ Len(q) > Len(name)
       /\ SubSeq(q, 1, Len(name)) = name
       /\ IsNumber(SubSeq(q, Len(name) + 1, Len(q)))

OctaveOf(p, i) ==
    LET q == Normal(p)
    IN ParseInt(SubSeq(q, Len(_NOTE_ORDER[i + 1]) + 1, Len(q))).val

NoteIndexes(p) == {i \in 0..11 : ParsesAs(p, i)}

\* the semitone count of a pitch string that parses
TotalOf(p) ==
    LET i == CHOOSE i \in NoteIndexes(p) : TRUE
    IN 12 * OctaveOf(p, i) + i

\* the spelling of semitone count t >= 0: note t mod 12, octave t div 12
Spelling(t) == _NOTE_ORDER[(t % 12) + 1] \o IntToStr(t \div 12)

\* C15: transpose_event on a melodic event whose pitch parses as note index
\* i and octave o sets the pitch to the note of index t mod 12 and octave
\* t div 12, t = max(0, 12*o + i + semitone); a pitch that does not parse
\* leaves the event unchanged; A1 by +12 gives A2 and A2 by -24 gives A0.
C15_TransposeEvent ==
    last.op = "transpose_event"
        => \A m \in TargetPositions :
              LET old == last.pre.events
                  p == old[m].pitch
                  s == last.args.semitone
              IN old[m].type = "melodic"
                    => /\ NoteIndexes(p) = {} => events = old
                       /\ NoteIndexes(p) # {} =>
                             events = [old EXCEPT
                                         ![m].pitch = Spelling(Max(0, TotalOf(p) + s))]
                       /\ (p = <<"A", "1">> /\ s = 12) => events[m].pitch = <<"A", "2">>
                       /\ (p = <<"A", "2">> /\ s = -24) => events[m].pitch = <<"A", "0">>

\* A1 raised by 12 to A2, then lowered by 24 to A0
C15_Witness ==
    /\ last.op = "transpose_event"
    /\ prev.op = "transpose_event"
    /\ prev.args.semitone = 12
    /\ last.args.semitone = -24
    /\ prev.pre.events[1].pitch = <<"A", "1">>
    /\ last.pre.events[1].pitch = <<"A", "2">>
    /\ events[1].pitch = <<"A", "0">>

\* transpose_pitch(transpose_pitch(p, s), -s) has just been computed, for a p
\* that parses and with the semitone count >= 0 for p and for p shifted by s
RoundTrip ==
    /\ probe.fn = "transpose_pitch"
    /\ probe.fed_back
    /\ probe.semitone = -probe.first.semitone
    /\ NoteIndexes(probe.first.pitch) # {}
    /\ TotalOf(probe.first.pitch) >= 0
    /\ TotalOf(probe.first.pitch) + probe.first.semitone >= 0

\* C16 as stated: for every pitch string p that transpose_pitch accepts and
\* every s that keeps the semitone count >= 0 throughout,
\* transpose_pitch(transpose_pitch(p, s), -s) equals p.
C16_RoundTrip ==
    RoundTrip => probe.out = probe.first.pitch

\* C16 amended: under the same conditions the round trip gives p in canonical
\* spelling (blanks around removed, note letter in upper case, octave as a
\* plain decimal number), hence p itself exactly when p is spelled that way.
C16_RoundTripCanonical ==
    RoundTrip
        => /\ probe.out = Spelling(TotalOf(probe.first.pitch))
           /\ (probe.out = probe.first.pitch)
                 <=> (probe.first.pitch = Spelling(TotalOf(probe.first.pitch)))

\* B0 raised by 1 (to C1, across the octave) and lowered by 1 again
C16_Witness ==
    /\ RoundTrip
    /\ probe.first.pitch = <<"B", "0">>
    /\ probe.first.semitone = 1
    /\ probe.pitch = <<"C", "1">>
    /\ probe.out = <<"B", "0">>

\* C17: for every bar >= 1 and step in 1..ticks_per_bar, parse_time of
\* "bar:step" is (bar-1)*ticks_per_bar + (step-1), and parse_time of an
\* integer is that integer.
C17_ParseTime ==
    probe.fn = "parse_time"
        => /\ probe.t.kind = "int" => probe.out = [ok |-> TRUE, val |-> probe.t.n]
           /\ \A bar \in TimeBarInputs, step \in 1..ticks_per_bar :
                 probe.t = StrT(IntToStr(bar) \o <<":">> \o IntToStr(step))
                    => probe.out = [ok |-> TRUE,
                                    val |-> (bar - 1) * ticks_per_bar + (step - 1)]
           /\ probe.t = StrT(<<"1", "1", ":", "1", "6">>) => probe.out.val = 175
           /\ probe.t = StrT(<<"2", ":", "5">>) => probe.out.val = 20

\* "11:16", the last step of bar 11
C17_Witness ==
    /\ probe.fn = "parse_time"
    /\ probe.t = StrT(<<"1", "1", ":", "1", "6">>)
    /\ probe.out = [ok |-> TRUE, val |-> 175]

\* a start string without ':' or whose bar or step part is no number
BadTime(t) ==
    /\ t.kind = "str"
    /\ \/ ColonPositions(t.s) = {}
       \/ /\ Cardinality(ColonPositions(t.s)) = 1
          /\ LET c == CHOOSE i \in ColonPositions(t.s) : TRUE
             IN \/ ~IsNumber(SubSeq(t.s, 1, c - 1))
                \/ ~IsNumber(SubSeq(t.s, c + 1, Len(t.s)))

\* C18: parse_time of a string with no ':' or with a bar or step part that is
\* no number raises to its caller and yields no tick: place_drum and
\* place_note given such a start end with that error, return no id, create no
\* event and leave the reference context as it was.
C18_BadStartRejected ==
    (last.op \in PlaceOps /\ BadTime(last.args.start))
        => /\ last.err = "ValueError"
           /\ last.ret = RetNone
           /\ events = last.pre.events
           /\ ContextUnchanged

\* place_note with start "2:x" in a project that holds events and a
\* non-empty reference context
C18_Witness ==
    /\ last.op = "place_note"
    /\ BadTime(last.args.start)
    /\ last.pre.events # << >>
    /\ last.pre.created # << >>
    /\ last.err = "ValueError"

BarOps == {"set_bars", "update_meta"}

\* the last call reduced the bar count (to a count a project may have)
BarsReduced == last.op \in BarOps /\ 1 <= bars /\ bars < last.pre.bars

\* C19 as stated: after the bar count is reduced, by the rule command
\* set_bars as well as by the meta update request, every event's duration_tick
\* satisfies 1 <= duration_tick <= ticks_per_bar.
C19_DurationWithinBar ==
    BarsReduced
        => \A i \in 1..Len(events) :
              1 <= events[i].duration_tick /\ events[i].duration_tick <= ticks_per_bar

\* C19 amended: after the meta update request every event's duration_tick is
\* its old one clamped into 1..ticks_per_bar; the rule command set_bars leaves
\* every duration_tick as it was, above ticks_per_bar included; in every state
\* duration_tick >= 1.
C19_DurationAfterBarChange ==
    /\ \A i \in 1..Len(events) : events[i].duration_tick >= 1
    /\ last.op \in BarOps
          => /\ Len(events) = Len(last.pre.events)
             /\ \A i \in 1..Len(events) :
                   LET d == last.pre.events[i].duration_tick
                   IN events[i].duration_tick =
                        IF last.op = "update_meta"
                        THEN Max(1, Min(d, ticks_per_bar))
                        ELSE d

\* a meta update that reduces the bars of a project holding an over-long event
C19_Witness ==
    /\ BarsReduced
    /\ last.op = "update_meta"
    /\ \E i \in 1..Len(events) :
          /\ last.pre.events[i].duration_tick > ticks_per_bar
          /\ events[i].duration_tick = ticks_per_bar

\* C20: recompute_meta, run after a bar-count change by set_bars, sets
\* start_tick to the new total_ticks for exactly the events whose start_tick
\* exceeded it and changes nothing else: no event is removed or added, the
\* other events and every other field are as they were.
C20_RecomputeMetaFrame ==
    last.op = "set_bars"
        => LET old == last.pre.events
               total == bars * ticks_per_bar
           IN /\ Len(events) = Len(old)
              /\ \A i \in 1..Len(old) :
                    events[i] = IF old[i].start_tick > total
                                THEN [old[i] EXCEPT !.start_tick = total]
                                ELSE old[i]
              /\ history_events_stack = last.pre.stack
              /\ ContextUnchanged

\* set_bars that pulls one event in and leaves another where it was
C20_Witness ==
    /\ last.op = "set_bars"
    /\ bars >= 1
    /\ \E i, j \in 1..Len(events) :
          /\ last.pre.events[i].start_tick > bars * ticks_per_bar
          /\ events[i].start_tick = bars * ticks_per_bar
          /\ last.pre.events[j].start_tick <= bars * ticks_per_bar
          /\ events[j] = last.pre.events[j]

\* the tracks whose id is the track_id argument of the last call
TracksOfLast == {i \in DOMAIN tracks : tracks[i].id = last.args.track_id}

\* C25: place_note called without a sample id gives the new event the
\* current_sample_id of the track whose id was passed, and "bass_A1_001" when
\* that track has an empty current_sample_id or does not exist; a sample id
\* supplied by the caller is used as given.
C25_PlaceNoteSample ==
    (last.op = "place_note" /\ last.err = "")
        => LET e == events[Len(events)]
           IN /\ e.id = last.ret.n
              /\ last.args.sample_id # "None" => e.sample_id = last.args.sample_id
              /\ last.args.sample_id = "None" =>
                    /\ \A i \in TracksOfLast :
                          tracks[i].current_sample_id # ""
                              => e.sample_id = tracks[i].current_sample_id
                    /\ \A i \in TracksOfLast :
                          tracks[i].current_sample_id = "" => e.sample_id = "bass_A1_001"
                    /\ TracksOfLast = {} => e.sample_id = "bass_A1_001"

\* a note placed without a sample id on a track that has no current sample,
\* after one placed without a sample id on no track
C25_Witness ==
    /\ last.op = "place_note" /\ last.err = ""
    /\ last.args.sample_id = "None"
    /\ TracksOfLast # {}
    /\ \A i \in TracksOfLast : tracks[i].current_sample_id = ""
    /\ events[Len(events)].sample_id = "bass_A1_001"
    /\ prev.op = "place_note" /\ prev.err = ""
    /\ prev.args.track_id = 9

\* the calls that create no event
NonCreatingOps ==
    {"move_event", "delete_event", "set_event_start", "set_pitch", "transpose_event",
     "undo", "select", "set_bars", "update_meta"}

\* C23: the last-created history is append-only: a creation appends the new
\* event's id, no call removes or reorders an entry, and last_created() is the
\* id of the most recent creation even when that event has since been deleted
\* or its creation undone.
C23_LastCreatedAppendOnly ==
    last.op # "init"
        => LET old == last.pre.created
               cur == last_created_event_ids
           IN /\ Len(old) <= Len(cur)
              /\ SubSeq(cur, 1, Len(old)) = old
              /\ (last.op \in PlaceOps /\ last.err = "")
                    => /\ cur = Append(old, last.ret.n)
                       /\ last_created(Cur) = last.ret.n
              /\ (last.op \in NonCreatingOps \/ last.err # "") => cur = old
              /\ (prev.op \in PlaceOps /\ prev.err = "" /\ last.op \in NonCreatingOps)
                    => last_created(Cur) = prev.ret.n

\* the creation of an event has just been undone and last_created() still
\* names that event
C23_Witness ==
    /\ prev.op \in PlaceOps /\ prev.err = ""
    /\ last.op = "undo" /\ last.args.steps = 1
    /\ prev.ret.n \notin EventIds(events)
    /\ last_created(Cur) = prev.ret.n

\* C24: last_selected() is the argument of the most recent set_selected call,
\* and the selection history never holds the same id in two adjacent
\* positions: selecting the currently selected id again adds nothing.
C24_SetSelected ==
    LET sel == last_selected_event_ids
    IN /\ \A i \in 1..(Len(sel) - 1) : sel[i] # sel[i + 1]
       /\ last.op = "select"
             => /\ last_selected(Cur) = last.args.event_id
                /\ sel = IF last.pre.selected # << >>
                            /\ last.pre.selected[Len(last.pre.selected)] = last.args.event_id
                         THEN last.pre.selected
                         ELSE Append(last.pre.selected, last.args.event_id)
       /\ (prev.op = "select" /\ last.op \notin {"select", "init"})
             => last_selected(Cur) = prev.args.event_id

\* the selected event has been selected again
C24_Witness ==
    /\ prev.op = "select"
    /\ last.op = "select"
    /\ prev.args.event_id = last.args.event_id
    /\ last_selected_event_ids = <<last.args.event_id>>

\* C21: in every reachable project state bpm is within 40..240 and bars is
\* within 1..64, whichever path changed them: project creation, the meta
\* update request, or the rule commands set_bpm and set_bars.
C21_MetaInRange ==
    /\ BpmMin <= bpm /\ bpm <= BpmMax
    /\ BarsMin <= bars /\ bars <= BarsMax

\* C22: from_dict(to_dict(s)) reproduces the meta, tracks, events and sample
\* registry of s by value, and from_dict derives ticks_per_bar and total_ticks
\* from the time signature, ticks_per_beat and bars of the record, ignoring
\* any ticks_per_bar or total_ticks value stored in the record.
C22_DictRoundTrip ==
    probe.fn = "from_dict"
        => LET s == probe.s
               d == probe.d
               out == probe.out
           IN /\ probe.edit = "none"
                    => /\ out.meta = s.meta
                       /\ out.tracks = s.tracks
                       /\ out.events = s.events
                       /\ out.samples = s.samples
              /\ out.meta.bars = d.meta.bars
              /\ out.meta.time_signature = d.meta.time_signature
              /\ probe.out_ticks_per_bar
                    = d.meta.time_signature[1] * out.meta.ticks_per_beat
              /\ probe.out_total_ticks
                    = d.meta.bars * d.meta.time_signature[1] * out.meta.ticks_per_beat
              /\ "ticks_per_beat" \in DOMAIN d.meta
                    => out.meta.ticks_per_beat = d.meta.ticks_per_beat

\* a record of a project with events and a registered sample was read back
\* with its stored ticks_per_bar and total_ticks overwritten
C22_Witness ==
    /\ probe.fn = "from_dict"
    /\ probe.edit = "derived_overwritten"
    /\ probe.d.meta.total_ticks # probe.out_total_ticks
    /\ probe.s.events # << >>
    /\ probe.s.samples # << >>
    /\ probe.out = probe.s

\* the tracks of the rendered snapshot that carry the id of event i
TracksOfEvent(s, i) == {k \in DOMAIN s.tracks : s.tracks[k].id = s.events[i].track_id}

\* event i of the rendered snapshot passed the range test and its track was
\* looked at
Considered(out, i) == out.rows[i].disposition \notin {"out_of_range", "not_reached"}

\* C26: in a render an event's track is active iff (some track has solo set
\* and this track has solo set) or (no track has solo set and this track is
\* not muted): solo overrides mute, the rule depends on the whole track set
\* and not on the event, and an event whose track id matches no track is
\* never rendered.
C26_ActiveTracks ==
    (probe.fn = "render" /\ probe.out.err = "")
        => LET s == probe.s
               out == probe.out
               solo_on == \E k \in DOMAIN s.tracks : s.tracks[k].solo
           IN \A i \in 1..Len(s.events) :
                 Considered(out, i)
                     => /\ TracksOfEvent(s, i) = {}
                              => out.rows[i].disposition = "inactive"
                        /\ \A k \in TracksOfEvent(s, i) :
                              (out.rows[i].disposition # "inactive")
                                  <=> \/ solo_on /\ s.tracks[k].solo
                                      \/ ~solo_on /\ ~s.tracks[k].mute

\* a track is both muted and soloed and its event is mixed, while the events
\* of the tracks that are neither are left out
C26_Witness ==
    /\ probe.fn = "render" /\ probe.out.err = ""
    /\ \E i \in 1..Len(probe.s.events) :
          /\ probe.out.rows[i].disposition = "mixed"
          /\ \E k \in TracksOfEvent(probe.s, i) :
                probe.s.tracks[k].mute /\ probe.s.tracks[k].solo
    /\ \E i \in 1..Len(probe.s.events) :
          /\ probe.out.rows[i].disposition = "inactive"
          /\ \E k \in TracksOfEvent(probe.s, i) :
                ~probe.s.tracks[k].mute /\ ~probe.s.tracks[k].solo

\* C27: with no region the rendered tick range is [0, total_ticks); with a
\* region (bar_start, bars) it is [(bar_start-1)*ticks_per_bar,
\* min(total_ticks, (bar_start-1)*ticks_per_bar + bars*ticks_per_bar)); exactly
\* the events whose start_tick lies in that half-open range are considered for
\* placement, and a region starting at or beyond the end of the project yields
\* an empty range rather than an error.
C27_RenderRange ==
    (probe.fn = "render" /\ probe.out.err = "")
        => LET s == probe.s
               out == probe.out
               region == probe.region
               total == s.meta.bars * ticks_per_bar
               lo == IF region.given THEN (region.bar_start - 1) * ticks_per_bar ELSE 0
               hi == IF region.given
                     THEN Min(total, lo + region.bars * ticks_per_bar)
                     ELSE total
           IN /\ out.start_tick = lo
              /\ out.end_tick = hi
              /\ \A i \in 1..Len(s.events) :
                    Considered(out, i)
                        <=> (lo <= s.events[i].start_tick /\ s.events[i].start_tick < hi)
              /\ lo >= total
                    => /\ out.written
                       /\ out.region_ticks = 0
                       /\ out.master = << >>

\* a preview of a region that starts after the last bar was written with
\* nothing in it
C27_Witness ==
    /\ probe.fn = "render"
    /\ probe.region.given
    /\ (probe.region.bar_start - 1) * ticks_per_bar >= probe.s.meta.bars * ticks_per_bar
    /\ probe.s.events # << >>
    /\ probe.out.err = ""
    /\ probe.out.written
    /\ probe.out.master = << >>

\* event i of the rendered snapshot starts inside the rendered range and its
\* track is active
Eligible(s, out, i) ==
    /\ out.start_tick <= s.events[i].start_tick
    /\ s.events[i].start_tick < out.end_tick
    /\ track_active(s.tracks, s.events[i].track_id)

\* the file the registry names for the sample of event i exists and can be read
SampleReadable(s, files, i) ==
    /\ s.events[i].sample_id \in DOMAIN s.samples
    /\ PathOf("storage/", s.samples[s.events[i].sample_id].path.rest) \in files.readable

\* C28: a render never aborts because of one event's sample: an event whose
\* sample id is absent from the registry, whose sample file does not exist, or
\* whose sample file exists but cannot be read is skipped, every other
\* eligible event is still mixed, and the output file is still written.
C28_RenderNeverAborts ==
    probe.fn = "render"
        => LET s == probe.s
               out == probe.out
           IN /\ out.err = ""
              /\ out.written
              /\ \A i \in 1..Len(s.events) :
                    Eligible(s, out, i)
                        => out.rows[i].disposition
                             = IF SampleReadable(s, probe.files, i) THEN "mixed"
                               ELSE "no_sample"

\* C29: for every rendered event the gain applied is track volume times event
\* velocity for every velocity in [0.0, 1.0] (an event with velocity 0.0
\* contributes silence), and the default 1.0 is used only when the event has
\* no velocity.
C29_Gain ==
    probe.fn = "render"
        => LET s == probe.s
               out == probe.out
           IN \A i \in 1..Len(out.rows) :
                 out.rows[i].disposition = "mixed"
                     => \A k \in TracksOfEvent(s, i) :
                           out.rows[i].gain
                             = s.tracks[k].volume
                                 * (IF s.events[i].velocity = -1 THEN 100
                                    ELSE s.events[i].velocity)

\* C32: undo changes only the event collection and the undo stack: the
\* project meta, the tracks and the reference context (last-created and
\* last-selected histories) are the same before and after any undo call.
C32_UndoFrame ==
    last.op = "undo"
        => /\ bpm = last.pre.bpm
           /\ bars = last.pre.bars
           /\ tracks = last.pre.tracks
           /\ last_created_event_ids = last.pre.created
           /\ last_selected_event_ids = last.pre.selected
           /\ last.err = ""

\* an undo that changed the events and shortened the stack, made while an
\* event was selected and the creation history was not empty
C32_Witness ==
    /\ last.op = "undo"
    /\ events # last.pre.events
    /\ Len(history_events_stack) < Len(last.pre.stack)
    /\ last_selected_event_ids # << >>
    /\ last_created_event_ids # << >>

\* the beat-start ticks of a project of nbars bars
BeatStartTicks(nbars) ==
    {b * ticks_per_bar + k * ticks_per_beat : b \in 0..(nbars - 1), k \in 0..3}

\* the positions of the events of evs that the last apply_pattern_four call
\* is about (its track and the sample of its drum) at tick t
PatternHitsAt(evs, t) ==
    {i \in 1..Len(evs) :
        /\ evs[i].track_id = last.args.track_id
        /\ evs[i].sample_id = DRUM_SAMPLE_ID(last.args.drum)
        /\ evs[i].start_tick = t}

DrumOfPattern(pattern, step) ==
    CASE pattern = "four_on_the_floor" /\ step \in {1, 5, 9, 13} -> "kick"
      [] pattern = "backbeat" /\ step \in {1, 9} -> "kick"
      [] pattern = "backbeat" /\ step \in {5, 13} -> "snare"
      [] pattern = "hihat_8th" /\ step \in {1, 3, 5, 7, 9, 11, 13, 15} -> "hihat"
      [] OTHER -> "none"

\* C39: the drum operations agree on the sample id of each drum: a kick,
\* snare or hi-hat event created by apply_drum_pattern at tick t on track 1 is
\* found and deleted by toggle_drum with the same drum name and start_tick t,
\* instead of a second event being created at that tick.
C39_DrumSamplesAgree ==
    (prev.op = "apply_drum_pattern" /\ last.op = "toggle_drum" /\ last.args.track_id = 1)
        => \A i \in 1..Len(last.pre.events) :
              LET e == last.pre.events[i]
              IN (/\ e.id \notin EventIds(prev.pre.events)
                  /\ e.track_id = 1
                  /\ e.start_tick = last.args.start_tick
                  /\ DrumOfPattern(prev.args.pattern, (e.start_tick % ticks_per_bar) + 1)
                       = last.args.drum)
                 => /\ last.ret = RetStr("deleted")
                    /\ e.id \notin EventIds(events)
                    /\ Len(events) = Len(last.pre.events) - 1

\* C40: every event the engine can hold (0 <= start_tick <= total_ticks)
\* that sits on an active track and has a resolvable sample is placed into
\* the full-timeline render (region omitted): no start tick that clamp_tick
\* accepts is excluded from the render range.
C40_FullRenderPlacesAll ==
    (probe.fn = "render" /\ ~probe.region.given /\ probe.out.err = "")
        => LET s == probe.s
               out == probe.out
           IN \A i \in 1..Len(s.events) :
                 (/\ s.events[i].start_tick = clamp_tick(s.meta.bars, s.events[i].start_tick)
                  /\ track_active(s.tracks, s.events[i].track_id)
                  /\ SampleReadable(s, probe.files, i))
                     => out.rows[i].disposition = "mixed"

ChatOps == {"chat_rule", "chat_llm"}

\* C31: a chat plan that names only tools advertised in CAPABILITIES passes
\* the plan schema and its first action is handed to the engine tool: the
\* request does not fail validation, and the plan is not emptied
C31_AdvertisedToolsRun ==
    ( /\ last.op \in ChatOps
      /\ last.args.tools # << >>
      /\ \A i \in 1..Len(last.args.tools) : last.args.tools[i] \in CAPABILITIES )
    => /\ last.err # "ValidationError"
       /\ last.ret.n >= 1

\* C37: a chat request whose plan raised leaves no trace: the saved events,
\* the undo stack and the last-created history are those from before the
\* request
C37_FailedPlanLeavesNoTrace ==
    (last.op \in ChatOps /\ last.err # "")
    => /\ events = last.pre.events
       /\ history_events_stack = last.pre.stack
       /\ last_created_event_ids = last.pre.created

\* the worker of job j is outside its critical sections
Settled(j) == lock # j

StatusMoves ==
    {<<"queued", "running">>, <<"running", "done">>, <<"running", "failed">>}

C34_JobsFinish ==
    /\ [](last.op = "create_job" => JobQueue_get(last.ret.n) = last.ret.n)
    /\ \A j \in 1..MaxOps :
         (j <= Len(_jobs))
         ~> (j <= Len(_jobs) /\ _jobs[j].status \in {"done", "failed"})

\* a job whose task raised has come to rest in failed while a second job,
\* created after it, has not started
C34_Witness ==
    /\ Len(_jobs) = 2
    /\ threads[1].exc # "None" /\ Current(1).op = "end" /\ _jobs[1].status = "failed"
    /\ _jobs[2].status = "queued"

\* C36: a finished response of the status query never carries a result, or
\* progress 100 with message "done", beside a status other than done
C36_ConsistentSnapshot ==
    query.pc = "done"
    => ( (query.result # "None" \/ (query.progress = 100 /\ query.message = "done"))
         => query.status = "done" )

\* C38: when a generate_sample job saves the project, the events in the
\* file are the ones that were there just before: the save adds the sample
\* and discards nothing saved since the job loaded the project
C38_JobSaveKeepsEdits ==
    last.op = "job_save" => events = last.pre.events
====
